---- MODULE Spec2Model ----
(***************************************************************************)
(* ProcessPulse: the retrieval-augmented assessment pipeline.              *)
(* AssessmentEngine.assess (app/services/assessment/analyzer.py) as a      *)
(* state machine, with the chunker, the embedding adapter and the          *)
(* retriever it calls (app/services/rag).                                  *)
(*                                                                         *)
(* Numbers: points are integers (a JSON number the generator returns);     *)
(* a percentage is kept in tenths of a percent (70.0 is 700); a cosine     *)
(* score is never computed as a real, it is compared through the squares   *)
(* of its numerator and denominator.                                       *)
(***************************************************************************)
EXTENDS Integers, Sequences, FiniteSets, TLC

VARIABLES
    rubric,                 \* self.rubric
    retrieval_top_k,        \* self.retrieval_top_k
    chunks_,                \* self._chunks
    retriever_,             \* self._retriever (None, or a Retriever)
    chat_history,           \* assess(chat_history, ...)
    run_authenticity,       \* assess(..., run_authenticity)
    pc,                     \* position of the run inside assess
    errors,                 \* errors
    total_steps,            \* total_steps
    current_step,           \* current_step
    cat,                    \* index of the category the loop is in
    crit,                   \* index, in that category, of the next criterion
    criterion_assessments,  \* criterion_assessments
    total_score,            \* total_score
    total_possible,         \* total_possible
    summary_result,         \* summary_result
    authenticity_result,    \* authenticity_result
    returned,               \* the FullAssessment assess returned (None before)
    propagated,             \* the exception assess raised to its caller ("none" before)
    progress,               \* the calls report_progress made, in order
    stageLog,               \* per stage run: the calls it made and what it raised
    store,                  \* a Retriever exercised on its own
    passed,                 \* every chunk passed to store.add_chunks, in order
    input,                  \* the arguments of a library call exercised on its own
    output                  \* what that call did (None before it)

\* the engine's state, and the state of the library exercised on its own
engine == << rubric, retrieval_top_k, chunks_, retriever_, chat_history,
             run_authenticity, pc, errors, total_steps, current_step, cat, crit,
             criterion_assessments, total_score, total_possible, summary_result,
             authenticity_result, returned, propagated, progress, stageLog >>
library == << store, passed, input, output >>
vars == << engine, library >>

None == [none |-> TRUE]

----------------------------------------------------------------------------
(* Bounds of the model *)

\* most categories a rubric of the model has
MaxCategories == 2
\* most criteria a rubric of the model has, over all its categories
MaxCriteria == 2

----------------------------------------------------------------------------
(* Program constants *)

\* AssessmentEngine.__init__(retrieval_top_k = 5)
DefaultTopK == 5
\* min_score = 0.25 in _assess_criterion, as MinScoreNum / MinScoreDen
MinScoreNum == 1
MinScoreDen == 4
\* EmbeddingService.__init__(batch_size = 10)
BatchSize == 10
\* total_steps = criteria_count + 3
ExtraSteps == 3
\* AuthenticityResult score default
DefaultAuthenticityScore == 50

----------------------------------------------------------------------------
(* Sequences *)

SeqsUpTo(S, n) == UNION { [1..k -> S] : k \in 0..n }

RECURSIVE SumSeq(_)
SumSeq(s) == IF s = << >> THEN 0 ELSE Head(s) + SumSeq(Tail(s))

Min(a, b) == IF a <= b THEN a ELSE b
Max(a, b) == IF a >= b THEN a ELSE b

\* s[from+1 .. to] as Python's s[from:to] (0-based, end exclusive, clipped)
Slice(s, from, to) ==
    LET lo == Max(0, from)
        hi == Min(Len(s), to)
    IN  IF hi <= lo THEN << >> ELSE SubSeq(s, lo + 1, hi)

----------------------------------------------------------------------------
(* JSON values, as orjson.loads returns them *)

Num(n) == [t |-> "num", n |-> n]
Str(s) == [t |-> "str", s |-> s]
Null == [t |-> "null"]
List(items) == [t |-> "list", items |-> items]
Dict(m) == [t |-> "dict", m |-> m]
EmptyDict == [t |-> "dict", m |-> << >>]

\* an operation's outcome: a value, or an exception raised
Ok(v) == [ok |-> TRUE, value |-> v]
Raise(e) == [ok |-> FALSE, exc |-> e]

\* dict.get(key, default); on a value that is no dict Python raises AttributeError
HasGet(j) == j.t = "dict"
Get(j, key, default) == IF key \in DOMAIN j.m THEN j.m[key] ELSE default

\* the decimal strings the model's generator writes
NumericStrings == { "7" }
ParseDecimal(s) == IF s = "7" THEN 7 ELSE 0

\* float(x): a number is kept, a numeric string is parsed, any other string is
\* a ValueError, None / a list / a dict is a TypeError
ToFloat(j) ==
    IF j.t = "num" THEN Ok(j.n)
    ELSE IF j.t = "str"
         THEN IF j.s \in NumericStrings THEN Ok(ParseDecimal(j.s))
              ELSE Raise("ValueError")
         ELSE Raise("TypeError")

----------------------------------------------------------------------------
(* The inputs of the model: rubrics and conversations *)

\* most exchanges a conversation of the model has
MaxExchanges == 3

Criterion(name, points) == [name |-> name, points |-> points]

\* The criterion a rubric of the model declares in position i (1-based, over
\* all its categories). "Writing Quality" and "Depth & Insight" have an entry
\* in create_query_for_criterion's table, "Originality" has none.
CriterionAt(i) ==
    IF i = 1 THEN Criterion("Writing Quality", 10)
    ELSE IF i = 2 THEN Criterion("Originality", 7)
    ELSE Criterion("Depth & Insight", 5)

Category(criteria) == [criteria |-> criteria]

\* sum(len(cat.criteria) for cat in self.rubric.categories)
RECURSIVE CriteriaCount(_)
CriteriaCount(categories) ==
    IF categories = << >> THEN 0
    ELSE Len(Head(categories).criteria) + CriteriaCount(Tail(categories))

\* the categories of the sizes given, declaring the criteria from position
\* first on
RECURSIVE CategoriesOf(_, _)
CategoriesOf(sizes, first) ==
    IF sizes = << >> THEN << >>
    ELSE << Category([ k \in 1..Head(sizes) |-> CriterionAt(first + k - 1) ]) >>
         \o CategoriesOf(Tail(sizes), first + Head(sizes))

\* the rubrics of at most MaxCategories categories and at most MaxCriteria
\* criteria; those with an empty category (leading, trailing, between, alone)
\* have at most one criterion
Rubrics ==
    { [categories |-> CategoriesOf(sizes, 1)] : sizes \in
        { z \in SeqsUpTo(0..MaxCriteria, MaxCategories) :
            /\ SumSeq(z) <= MaxCriteria
            /\ (\E i \in 1..Len(z) : z[i] = 0) => SumSeq(z) <= 1 } }

\* the rubric's criteria in declared order: categories in order, criteria in
\* order within each category
RECURSIVE FlatCriteria(_)
FlatCriteria(categories) ==
    IF categories = << >> THEN << >>
    ELSE Head(categories).criteria \o FlatCriteria(Tail(categories))

Exchange(i) ==
    [number |-> i, student_prompt |-> <<"prompt", i>>, ai_response |-> <<"response", i>>]
Chat(n) == [platform |-> "chatgpt", exchanges |-> [i \in 1..n |-> Exchange(i)]]
Chats == { Chat(0), Chat(MaxExchanges) }

----------------------------------------------------------------------------
(* Chunker *)

\* ChatChunk.embedding: None until a vector is attached
NoEmbedding == [some |-> FALSE, v |-> << >>]
Embedding(v) == [some |-> TRUE, v |-> v]

\* (mutant) the context after ends one exchange early
ChunkOfShortAfter(chat, i, context_window) ==
    LET exchanges == chat.exchanges
        exchange == exchanges[i + 1]
    IN  [ chunk_id |-> <<"chat", chat.platform, exchange.number>>,
          exchange_number |-> exchange.number,
          student_prompt |-> exchange.student_prompt,
          ai_response |-> exchange.ai_response,
          context_before |->
              IF context_window > 0
              THEN Slice(exchanges, Max(0, i - context_window), i)
              ELSE << >>,
          context_after |->
              IF context_window > 0
              THEN Slice(exchanges, i + 1, Min(Len(exchanges), i + context_window))
              ELSE << >>,
          embedding |-> NoEmbedding ]

\* chunk_chat_history: one chunk per exchange, with up to context_window
\* exchanges before and after it
ChunkOf(chat, i, context_window) ==
    LET exchanges == chat.exchanges
        exchange == exchanges[i + 1]
    IN  [ chunk_id |-> <<"chat", chat.platform, exchange.number>>,
          exchange_number |-> exchange.number,
          student_prompt |-> exchange.student_prompt,
          ai_response |-> exchange.ai_response,
          context_before |->
              IF context_window > 0
              THEN Slice(exchanges, Max(0, i - context_window), i)
              ELSE << >>,
          context_after |->
              IF context_window > 0
              THEN Slice(exchanges, i + 1, Min(Len(exchanges), i + context_window + 1))
              ELSE << >>,
          embedding |-> NoEmbedding ]

chunk_chat_history(chat, context_window) ==
    [ k \in 1..Len(chat.exchanges) |-> ChunkOf(chat, k - 1, context_window) ]

\* ChatChunk.primary_text, the text embed_chunks embeds (include_context = False)
primary_text(chunk) == <<"Student", chunk.student_prompt, "AI Response", chunk.ai_response>>

----------------------------------------------------------------------------
(* Embedding provider and adapter *)

\* create_query_for_criterion: the table's query, or the generic one
QueryMapped == { "Writing Quality", "Depth & Insight" }
create_query_for_criterion(name) ==
    IF name \in QueryMapped THEN <<"query", name>> ELSE <<"Evidence related to", name>>

\* The provider's vector for a text: a fixed function of the text, as an
\* embedding model is. Two components are enough to make scores differ, tie,
\* and fall below min_score.
ProviderVector(text) ==
    IF text[1] = "Student"
    THEN LET i == text[2][2]
         IN  IF i = 1 THEN <<1, 0>>
             ELSE IF i = 2 THEN <<0, 1>>
             ELSE IF i = 3 THEN <<1, 1>>
             ELSE <<i, 1>>
    ELSE IF text[1] = "query" THEN (IF text[2] = "Depth & Insight" THEN <<1, 1>> ELSE <<1, 0>>)
    ELSE <<1, 3>>

\* What the provider does with one /api/embed request: it answers with one
\* vector per text, the request fails (transport or HTTP status), or it answers
\* with a document that has no "embeddings" key
ProviderReplies == { "vectors", "error", "no_embeddings" }

\* OllamaClient.embed on one batch: data.get("embeddings", []), or RuntimeError
ClientEmbed(texts, reply) ==
    IF reply = "error" THEN Raise("RuntimeError")
    ELSE IF reply = "no_embeddings" THEN Ok(<< >>)
    ELSE Ok([ i \in 1..Len(texts) |-> ProviderVector(texts[i]) ])

\* EmbeddingService.embed_texts: no call at all for no text
embed_texts(texts, reply) ==
    IF texts = << >> THEN Ok(<< >>) ELSE ClientEmbed(texts, reply)

\* the provider's reply to the batch of a number; it answers every batch the
\* replies do not speak of
ReplyAt(replies, batch_num) ==
    IF batch_num <= Len(replies) THEN replies[batch_num] ELSE "vectors"

\* the loop of embed_texts_batched from offset i: the vectors returned or the
\* error that ended it, with the batches requested from the provider and
\* all_embeddings as the loop left it
\* (mutant) the delay follows every batch, the last one too
PauseAfterEveryBatch(i, batch_size, n) == TRUE

\* if i + self.batch_size < len(texts): await asyncio.sleep(0.1)
PauseDue(i, batch_size, n) == i + batch_size < n

Embedded(batch) == [event |-> "embed_texts", batch |-> batch]
Slept == [event |-> "sleep"]

RECURSIVE BatchLoop(_, _, _, _, _, _, _)
BatchLoop(texts, i, batch_size, replies, all_embeddings, requested, events) ==
    IF i >= Len(texts)
    THEN [out |-> Ok(all_embeddings), requested |-> requested, gathered |-> all_embeddings,
          events |-> events]
    ELSE LET batch == Slice(texts, i, i + batch_size)
             batch_num == (i \div batch_size) + 1
             got == embed_texts(batch, ReplyAt(replies, batch_num))
         IN  IF ~got.ok
             THEN [out |-> got, requested |-> Append(requested, batch),
                   gathered |-> all_embeddings, events |-> Append(events, Embedded(batch))]
             ELSE BatchLoop(texts, i + batch_size, batch_size, replies,
                            all_embeddings \o got.value, Append(requested, batch),
                            IF PauseDue(i, batch_size, Len(texts))
                            THEN events \o << Embedded(batch), Slept >>
                            ELSE Append(events, Embedded(batch)))

\* EmbeddingService.embed_texts_batched; total_batches divides by batch_size
embed_texts_batched(texts, batch_size, replies) ==
    IF batch_size = 0
    THEN [out |-> Raise("ZeroDivisionError"), requested |-> << >>, gathered |-> << >>,
          events |-> << >>]
    ELSE BatchLoop(texts, 0, batch_size, replies, << >>, << >>, << >>)

\* for chunk, embedding in zip(chunks, embeddings): chunk.embedding = embedding
AttachEmbeddings(chunks, embeddings) ==
    [ i \in 1..Len(chunks) |->
        IF i <= Len(embeddings)
        THEN [chunks[i] EXCEPT !.embedding = Embedding(embeddings[i])]
        ELSE chunks[i] ]

\* (mutant) the vectors gathered before the failing batch are attached
embed_chunks_partial(chunks, replies) ==
    IF chunks = << >> THEN [out |-> Ok(chunks), requested |-> << >>, chunks |-> chunks]
    ELSE LET texts == [ i \in 1..Len(chunks) |-> primary_text(chunks[i]) ]
             got == embed_texts_batched(texts, BatchSize, replies)
         IN  [out |-> IF got.out.ok THEN Ok(AttachEmbeddings(chunks, got.gathered))
                      ELSE got.out,
              requested |-> got.requested,
              chunks |-> AttachEmbeddings(chunks, got.gathered)]

\* embed_chunks: the chunks with their vectors attached, or the error, with
\* the batches requested from the provider and the caller's chunks as the
\* call left them (the vectors are attached in place, after the last batch)
embed_chunks(chunks, replies) ==
    IF chunks = << >> THEN [out |-> Ok(chunks), requested |-> << >>, chunks |-> chunks]
    ELSE LET texts == [ i \in 1..Len(chunks) |-> primary_text(chunks[i]) ]
             got == embed_texts_batched(texts, BatchSize, replies)
         IN  IF ~got.out.ok
             THEN [out |-> got.out, requested |-> got.requested, chunks |-> chunks]
             ELSE [out |-> Ok(AttachEmbeddings(chunks, got.out.value)),
                   requested |-> got.requested,
                   chunks |-> AttachEmbeddings(chunks, got.out.value)]

\* embed_query / EmbeddingService.embed_text: the first vector, [] for none
embed_query(query, reply) ==
    LET got == ClientEmbed(<<query>>, reply)
    IN  IF ~got.ok THEN got
        ELSE Ok(IF got.value = << >> THEN << >> ELSE got.value[1])

----------------------------------------------------------------------------
(* Retriever *)

\* sum(a * b for a, b in zip(vec1, vec2))
RECURSIVE DotFrom(_, _, _)
DotFrom(a, b, i) ==
    IF i > Min(Len(a), Len(b)) THEN 0 ELSE a[i] * b[i] + DotFrom(a, b, i + 1)
Dot(a, b) == DotFrom(a, b, 1)

\* cosine_similarity: the score num / sqrt(den2); 0.0 for an empty vector or
\* a zero magnitude
ZeroScore == [num |-> 0, den2 |-> 1]
cosine_similarity(vec1, vec2) ==
    IF vec1 = << >> \/ vec2 = << >> THEN ZeroScore
    ELSE IF Dot(vec1, vec1) = 0 \/ Dot(vec2, vec2) = 0 THEN ZeroScore
    ELSE [num |-> Dot(vec1, vec2), den2 |-> Dot(vec1, vec1) * Dot(vec2, vec2)]

\* score >= n / d, for n >= 0 and d > 0
ScoreAtLeast(score, n, d) ==
    score.num >= 0 /\ d * d * score.num * score.num >= n * n * score.den2

\* s1 > s2
ScoreGreater(s1, s2) ==
    IF s1.num >= 0 /\ s2.num >= 0
    THEN s1.num * s1.num * s2.den2 > s2.num * s2.num * s1.den2
    ELSE IF s1.num >= 0 THEN TRUE
    ELSE IF s2.num >= 0 THEN FALSE
    ELSE s1.num * s1.num * s2.den2 < s2.num * s2.num * s1.den2

\* Retriever(): an empty index
Retriever(embedding_model) == [chunks |-> << >>, embedding_model |-> embedding_model]

\* (mutant) a chunk whose identifier the index already holds is not added
RECURSIVE add_chunks_once(_, _)
add_chunks_once(retriever, chunks) ==
    IF chunks = << >> THEN retriever
    ELSE add_chunks_once(
            IF Head(chunks).embedding.some
               /\ \A i \in 1..Len(retriever.chunks) :
                     retriever.chunks[i].chunk_id # Head(chunks).chunk_id
            THEN [retriever EXCEPT !.chunks = Append(@, Head(chunks))]
            ELSE retriever,
            Tail(chunks))

\* Retriever.add_chunks: the chunks that carry a vector, appended
add_chunks(retriever, chunks) ==
    [retriever EXCEPT !.chunks = @ \o SelectSeq(chunks, LAMBDA c : c.embedding.some)]

\* for chunk in self.chunks: if chunk.embedding and score >= min_score
ScoredChunks(chunks, query_embedding, n, d) ==
    LET scored == [ i \in 1..Len(chunks) |->
                      [chunk |-> chunks[i],
                       score |-> cosine_similarity(query_embedding, chunks[i].embedding.v)] ]
    IN  SelectSeq(scored, LAMBDA x :
            x.chunk.embedding.v # << >> /\ ScoreAtLeast(x.score, n, d))

\* scored_chunks.sort(key = score, reverse = True): a stable sort, equal scores
\* keep their order
\* (mutant) a chunk goes before the earlier chunks of equal score
RECURSIVE InsertBeforeEqual(_, _)
InsertBeforeEqual(sorted, x) ==
    IF sorted = << >> THEN <<x>>
    ELSE IF ~ScoreGreater(Head(sorted).score, x.score) THEN <<x>> \o sorted
    ELSE <<Head(sorted)>> \o InsertBeforeEqual(Tail(sorted), x)

RECURSIVE InsertByScore(_, _)
InsertByScore(sorted, x) ==
    IF sorted = << >> THEN <<x>>
    ELSE IF ScoreGreater(x.score, Head(sorted).score) THEN <<x>> \o sorted
    ELSE <<Head(sorted)>> \o InsertByScore(Tail(sorted), x)

\* (mutant) the scored chunks are left in index order
SortByScoreSkipped(s) == s

RECURSIVE SortByScore(_)
SortByScore(s) ==
    IF s = << >> THEN << >>
    ELSE InsertByScore(SortByScore(SubSeq(s, 1, Len(s) - 1)), s[Len(s)])

\* enumerate(scored_chunks[:top_k], 1)
Ranked(sorted, top_k) ==
    LET top == Slice(sorted, 0, top_k)
    IN  [ i \in 1..Len(top) |-> [chunk |-> top[i].chunk, score |-> top[i].score, rank |-> i] ]

\* Retriever.search with min_score = n / d: [] on an empty index, with no
\* embedding call; the error of the query embedding call; [] for an empty
\* query vector. With the embedding calls it issued.
search(retriever, query, top_k, n, d, queryReply) ==
    IF retriever.chunks = << >> THEN [out |-> Ok(<< >>), embed_calls |-> 0]
    ELSE LET got == embed_query(query, queryReply)
         IN  [ out |-> IF ~got.ok THEN got
                       ELSE IF got.value = << >> THEN Ok(<< >>)
                       ELSE Ok(Ranked(SortByScore(
                                ScoredChunks(retriever.chunks, got.value, n, d)), top_k)),
               embed_calls |-> 1 ]

\* Retriever.search_by_embedding with min_score = n / d
search_by_embedding(retriever, query_embedding, top_k, n, d) ==
    IF retriever.chunks = << >> \/ query_embedding = << >> THEN << >>
    ELSE Ranked(SortByScore(ScoredChunks(retriever.chunks, query_embedding, n, d)), top_k)

\* format_retrieved_for_prompt: the literal for no result, else the citations
\* in rank order
format_retrieved_for_prompt(results) ==
    IF results = << >>
    THEN [text |-> "No relevant chat history found.", cites |-> << >>]
    ELSE [text |-> "chunks",
          cites |-> [ i \in 1..Len(results) |-> results[i].chunk.exchange_number ]]

----------------------------------------------------------------------------
(* Response normalizer *)

\* A completion text, by what each extraction attempt of _parse_json_response
\* finds in it: parsing the whole text, parsing the interior of its json-fenced
\* block, parsing from its first '{' to its last '}'. Fail: the attempt raises.
Fail == [t |-> "fail"]
Text(whole, fence, braces) == [whole |-> whole, fence |-> fence, braces |-> braces]
JsonText(j) == Text(j, Fail, Fail)

\* A completion text as the pieces the normalizer tells apart, in order: "w" a
\* word of prose, "fence_json" the opening fence of a json block, "fence" a bare
\* fence, "{" and "}" the braces, "k" a member of an object, "7" a number.
\* orjson.loads of a text: an object, a number, or JSONDecodeError
loads(tokens) ==
    IF tokens = <<"{", "}">> THEN EmptyDict
    ELSE IF tokens = <<"{", "k", "}">> THEN Dict([k |-> Num(1)])
    ELSE IF tokens = <<"7">> THEN Num(7)
    ELSE Fail

\* text.index(sub, start) over the pieces from position i on: the position of
\* the first piece containing sub, 0 for ValueError (the json fence contains the
\* bare fence)
RECURSIVE IndexFrom(_, _, _)
IndexFrom(tokens, subs, i) ==
    IF i > Len(tokens) THEN 0
    ELSE IF tokens[i] \in subs THEN i
    ELSE IndexFrom(tokens, subs, i + 1)

\* text.rindex(sub)
RECURSIVE RIndexFrom(_, _, _)
RIndexFrom(tokens, subs, i) ==
    IF i < 1 THEN 0
    ELSE IF tokens[i] \in subs THEN i
    ELSE RIndexFrom(tokens, subs, i - 1)

\* if the json fence is in text: loads(text[index(json fence) + 7 : index(fence, start)])
FenceAttempt(tokens) ==
    LET open == IndexFrom(tokens, {"fence_json"}, 1)
        close == IndexFrom(tokens, {"fence", "fence_json"}, open + 1)
    IN  IF open = 0 \/ close = 0 THEN Fail
        ELSE loads(SubSeq(tokens, open + 1, close - 1))

\* loads(text[index("{") : rindex("}") + 1])
BraceAttempt(tokens) ==
    LET start == IndexFrom(tokens, {"{"}, 1)
        end == RIndexFrom(tokens, {"}"}, Len(tokens))
    IN  IF start = 0 \/ end = 0 THEN Fail
        ELSE loads(SubSeq(tokens, start, end))

\* what the three attempts find in a text
Extraction(tokens) == Text(loads(tokens), FenceAttempt(tokens), BraceAttempt(tokens))

\* prose with no fence and no brace: every attempt fails
Prose == Extraction(<<"w", "w">>)

\* (mutant) None, not {}, when every attempt fails
parse_json_response_none(text) ==
    IF text.whole.t # "fail" THEN text.whole
    ELSE IF text.fence.t # "fail" THEN text.fence
    ELSE IF text.braces.t # "fail" THEN text.braces
    ELSE Null

\* (mutant) the braces are tried before the fenced block
parse_json_response_braces_first(text) ==
    IF text.whole.t # "fail" THEN text.whole
    ELSE IF text.braces.t # "fail" THEN text.braces
    ELSE IF text.fence.t # "fail" THEN text.fence
    ELSE EmptyDict

\* AssessmentEngine._parse_json_response
parse_json_response(text) ==
    IF text.whole.t # "fail" THEN text.whole
    ELSE IF text.fence.t # "fail" THEN text.fence
    ELSE IF text.braces.t # "fail" THEN text.braces
    ELSE EmptyDict

\* response.get("response", "{}")
ResponseText(response) ==
    IF "response" \in DOMAIN response THEN response.response ELSE JsonText(EmptyDict)

----------------------------------------------------------------------------
(* Assessment engine: one criterion *)

\* str(x) of a JSON scalar
DecimalString(n) == IF n \in 0..9 THEN <<"0","1","2","3","4","5","6","7","8","9">>[n + 1] ELSE "n"
PyStr(j) == IF j.t = "str" THEN j ELSE IF j.t = "num" THEN Str(DecimalString(j.n)) ELSE Str("None")

\* Evidence(...) from one item of the completion's evidence list
EvidenceItem(ev) ==
    IF ~HasGet(ev) THEN Raise("AttributeError")
    ELSE IF Get(ev, "excerpt", Str("")).t # "str" THEN Raise("TypeError")
    ELSE Ok([ type |-> Get(ev, "type", Str("unknown")),
              reference |-> PyStr(Get(ev, "reference", Str(""))),
              citation |-> Get(ev, "citation", Str("")),
              excerpt |-> Get(ev, "excerpt", Str("")),
              analysis |-> Get(ev, "analysis", Str("")) ])

\* for ev in result.get("evidence", []): evidence.append(Evidence(...))
BuildEvidence(result) ==
    LET e == Get(result, "evidence", List(<< >>))
    IN  IF e.t = "list"
        THEN IF \E i \in 1..Len(e.items) : ~EvidenceItem(e.items[i]).ok
             THEN Raise((EvidenceItem(e.items[
                      CHOOSE i \in 1..Len(e.items) :
                          /\ ~EvidenceItem(e.items[i]).ok
                          /\ \A k \in 1..(i - 1) : EvidenceItem(e.items[k]).ok ])).exc)
             ELSE Ok([ i \in 1..Len(e.items) |-> EvidenceItem(e.items[i]).value ])
        ELSE IF e.t = "str" THEN (IF e.s = "" THEN Ok(<< >>) ELSE Raise("AttributeError"))
        ELSE IF e.t = "dict" THEN (IF DOMAIN e.m = {} THEN Ok(<< >>) ELSE Raise("AttributeError"))
        ELSE Raise("TypeError")

\* (mutant) the points as the generator gave them, not capped
PointsEarnedUncapped(value, points) == value

\* min(float(result.get("points_earned", 0)), criterion.points)
PointsEarned(value, points) == Min(value, points)

\* CriterionAssessment(...) built from the parsed completion
BuildAssessment(criterion, result) ==
    IF ~HasGet(result) THEN Raise("AttributeError")
    ELSE LET evidence == BuildEvidence(result)
             earned == ToFloat(Get(result, "points_earned", Num(0)))
         IN  IF ~evidence.ok THEN evidence
             ELSE IF ~earned.ok THEN earned
             ELSE Ok([ criterion_name |-> criterion.name,
                       criterion_id |-> <<"crit", criterion.name>>,
                       points_possible |-> criterion.points,
                       points_earned |-> PointsEarned(earned.value, criterion.points),
                       level |-> Get(result, "level", Str("inadequate")),
                       reasoning |-> Get(result, "reasoning", Str("No reasoning provided")),
                       evidence |-> evidence.value,
                       feedback |-> Get(result, "feedback", Str("No feedback provided")),
                       confidence |-> Get(result, "confidence", Str("low")) ])

\* AssessmentEngine._assess_criterion. queryReply: what the provider does with
\* the query embedding call; gen: what client.generate does, Raise(e) or
\* Ok(response). The outcome, with the retrieval's result, the text the prompt
\* is given for it, the query embedding call's reply and the generate calls
\* made.
assess_criterion(criterion, retriever, top_k, queryReply, gen) ==
    LET query == create_query_for_criterion(criterion.name)
        found == IF retriever = None THEN [out |-> Ok(<< >>), embed_calls |-> 0]
                 ELSE search(retriever, query, top_k, MinScoreNum, MinScoreDen, queryReply)
        results == found.out
        query_reply == IF found.embed_calls = 0 THEN "none" ELSE queryReply
    IN  IF ~results.ok
        THEN [out |-> results, searched |-> TRUE, results |-> << >>, generate_calls |-> 0,
              retrieved_text |-> "", query_reply |-> query_reply]
        ELSE LET retrieved_text ==
                    IF retriever = None
                    THEN [text |-> "No chat history available.", cites |-> << >>]
                    ELSE format_retrieved_for_prompt(results.value)
                 base == [searched |-> retriever # None, results |-> results.value,
                          generate_calls |-> 1, retrieved_text |-> retrieved_text.text,
                          query_reply |-> query_reply]
             IN  IF ~gen.ok
                 THEN [out |-> gen] @@ base
                 ELSE [out |-> BuildAssessment(criterion,
                                   parse_json_response(ResponseText(gen.value)))] @@ base

\* (mutant) a placeholder that forgets the criterion's points
PlaceholderWithoutPoints(criterion, e) ==
    [ criterion_name |-> criterion.name,
      criterion_id |-> <<"err", criterion.name>>,
      points_possible |-> 0,
      points_earned |-> 0,
      level |-> Str("inadequate"),
      reasoning |-> [t |-> "str", s |-> "Assessment failed", e |-> e],
      evidence |-> << >>,
      feedback |-> Str("Unable to assess this criterion due to an error."),
      confidence |-> Str("low") ]

\* the placeholder assess substitutes for a criterion that raised
Placeholder(criterion, e) ==
    [ criterion_name |-> criterion.name,
      criterion_id |-> <<"err", criterion.name>>,
      points_possible |-> criterion.points,
      points_earned |-> 0,
      level |-> Str("inadequate"),
      reasoning |-> [t |-> "str", s |-> "Assessment failed", e |-> e],
      evidence |-> << >>,
      feedback |-> Str("Unable to assess this criterion due to an error."),
      confidence |-> Str("low") ]

\* the strings appended to errors: f"Embedding failed: {e}",
\* f"Criterion '{name}' failed: {e}", f"Authenticity check failed: {e}"
EmbeddingError(e) == [what |-> "Embedding failed", name |-> "", exc |-> e]
CriterionError(name, e) == [what |-> "Criterion failed", name |-> name, exc |-> e]
AuthenticityError(e) == [what |-> "Authenticity check failed", name |-> "", exc |-> e]

----------------------------------------------------------------------------
(* Assessment engine: summary, authenticity, result *)

\* format_criterion_scores slices each reasoning: a reasoning that is no text
\* raises TypeError; create_summary_prompt divides by total_possible
create_summary_prompt(assessments, score, possible) ==
    IF \E i \in 1..Len(assessments) : assessments[i].reasoning.t \notin {"str", "list"}
    THEN Raise("TypeError")
    ELSE IF possible = 0 THEN Raise("ZeroDivisionError")
    ELSE Ok([assessments |-> assessments, total_score |-> score, total_possible |-> possible])

\* AssessmentEngine._generate_summary: the parsed completion, or the error
generate_summary(assessments, score, possible, gen) ==
    LET prompt == create_summary_prompt(assessments, score, possible)
    IN  IF ~prompt.ok THEN [out |-> prompt, generate_calls |-> 0]
        ELSE IF ~gen.ok THEN [out |-> gen, generate_calls |-> 1]
        ELSE [out |-> Ok(parse_json_response(ResponseText(gen.value))), generate_calls |-> 1]

\* AssessmentEngine._check_authenticity: the AuthenticityResult, or the error
check_authenticity(gen) ==
    IF ~gen.ok THEN gen
    ELSE LET result == parse_json_response(ResponseText(gen.value))
         IN  IF ~HasGet(result) THEN Raise("AttributeError")
             ELSE Ok([ score |-> Get(result, "authenticity_score", Num(DefaultAuthenticityScore)),
                       confidence |-> Get(result, "confidence", Str("low")),
                       flags |-> Get(result, "flags", List(<< >>)),
                       positive_indicators |-> Get(result, "positive_indicators", List(<< >>)),
                       overall_assessment |->
                           Get(result, "overall_assessment", Str("Unable to assess")) ])

\* sum(ca.points_earned ...), sum(ca.points_possible ...)
TotalScore(assessments) ==
    SumSeq([ i \in 1..Len(assessments) |-> assessments[i].points_earned ])
\* (mutant) the possible points of the criteria that were scored only
TotalPossibleOfScored(assessments) ==
    SumSeq([ i \in 1..Len(assessments) |->
               IF assessments[i].criterion_id[1] = "err" THEN 0
               ELSE assessments[i].points_possible ])
TotalPossible(assessments) ==
    SumSeq([ i \in 1..Len(assessments) |-> assessments[i].points_possible ])

\* FullAssessment(...): summary_result.get raises on a summary that is no dict
FullAssessment(assessments, score, possible, summary, authenticity, errs) ==
    IF ~HasGet(summary) THEN Raise("AttributeError")
    ELSE Ok([ criterion_assessments |-> assessments,
              total_score |-> score,
              total_possible |-> possible,
              summary_paragraphs |-> Get(summary, "summary_paragraphs", List(<< >>)),
              key_strengths |-> Get(summary, "key_strengths", List(<< >>)),
              areas_for_growth |-> Get(summary, "areas_for_growth", List(<< >>)),
              notable_observations |-> Get(summary, "notable_observations", Str("")),
              overall_quality |-> Get(summary, "overall_quality", Str("unknown")),
              recommended_grade |-> Get(summary, "recommended_grade", Str("N/A")),
              authenticity |-> authenticity,
              errors |-> errs ])

\* round(x, 1) for x = num / den * 100 with den > 0, in tenths: to the nearest
\* tenth, a tie to the even one
RoundTenths(num, den) ==
    LET n == num * 1000
        floor == n \div den
        rem2 == 2 * (n - floor * den)
    IN  IF rem2 > den \/ (rem2 = den /\ floor % 2 = 1) THEN floor + 1 ELSE floor

\* FullAssessment.to_dict()["percentage"], in tenths of a percent
Percentage(full) ==
    IF full.total_possible > 0 THEN RoundTenths(full.total_score, full.total_possible) ELSE 0

----------------------------------------------------------------------------
(* What the inference service answers, in the model *)

Response(text) == [response |-> text]

EvidenceFixture ==
    Dict([type |-> Str("chat_exchange"), reference |-> Num(1), citation |-> Str("[CHAT:1]"),
          excerpt |-> Str("excerpt"), analysis |-> Str("analysis")])

ScoredCompletion(p) ==
    Ok(Response(JsonText(Dict(
        [points_earned |-> p, level |-> Str("proficient"), reasoning |-> Str("reasoning"),
         evidence |-> List(<<EvidenceFixture>>), feedback |-> Str("feedback"),
         confidence |-> Str("high")]))))

\* client.generate for a criterion: the retries give up, or a completion
CriterionGenerations ==
    { Raise("RetryError"), Ok(Response(Prose)) }
    \cup { ScoredCompletion(Num(p)) : p \in {-1, 7, 11} }
    \cup { ScoredCompletion(Str("abc")) }

SummaryFixture ==
    Dict([summary_paragraphs |-> List(<<Str("paragraph")>>),
          key_strengths |-> List(<<Str("strength")>>),
          areas_for_growth |-> List(<<Str("area")>>),
          notable_observations |-> Str("observation"),
          overall_quality |-> Str("proficient"),
          recommended_grade |-> Str("B")])

SummaryGenerations ==
    { Raise("RetryError"), Ok(Response(Prose)), Ok(Response(JsonText(SummaryFixture))),
      Ok(Response(JsonText(List(<< >>)))) }

AuthenticityCompletion(score) ==
    Ok(Response(JsonText(Dict([authenticity_score |-> score, confidence |-> Str("high")]))))

\* client.generate for the authenticity check: the retries give up, or a
\* completion; the model is asked for 0-100 and answers what it answers
AuthenticityGenerations ==
    { Raise("RetryError"), Ok(Response(Prose)) }
    \cup { AuthenticityCompletion(Num(score)) : score \in {80, 150} }

----------------------------------------------------------------------------
(* AssessmentEngine.assess *)

\* report_progress(step, current, total)
Reported(step, name, current, total) ==
    [step |-> step, name |-> name, current |-> current, total |-> total]

ExcOf(out) == IF out.ok THEN "none" ELSE out.exc

\* what one stage run did: what client.generate did when called (gen), the
\* exception raised inside the stage ("none": none), the generate calls it
\* made, whether it searched the index and what it retrieved
StageRun(stage, name, gen, exc, generate_calls, searched, results) ==
    [ stage |-> stage, criterion |-> name,
      gen |-> IF generate_calls = 0 THEN None ELSE gen, exc |-> exc,
      generate_calls |-> generate_calls, searched |-> searched,
      retrieved |-> [ i \in 1..Len(results) |-> results[i].chunk.exchange_number ],
      retrieved_text |-> "", query_reply |-> "none" ]

\* one iteration's run: also the text its prompt was given for the retrieval
\* and what the provider did with its query embedding call ("none": no call)
CriterionRun(name, gen, did) ==
    [ StageRun("PER_CRITERION", name, gen, ExcOf(did.out), did.generate_calls,
               did.searched, did.results)
        EXCEPT !.retrieved_text = did.retrieved_text, !.query_reply = did.query_reply ]

\* the position of the next criterion of the nested loops from (c, k), or
\* None when the loops are over
RECURSIVE NextCriterion(_, _, _)
NextCriterion(categories, c, k) ==
    IF c > Len(categories) THEN None
    ELSE IF k <= Len(categories[c].criteria) THEN [cat |-> c, crit |-> k]
    ELSE NextCriterion(categories, c + 1, 1)

HasNextCriterion == NextCriterion(rubric.categories, cat, crit) # None

\* (mutant) the authenticity stage whatever the caller asked
RunsAuthenticityAlways(run_auth) == TRUE

\* if run_authenticity:
RunsAuthenticity(run_auth) == run_auth

\* the engine after construction, before assess is called
EngineIdle ==
    /\ retrieval_top_k = DefaultTopK
    /\ chunks_ = << >>
    /\ retriever_ = None
    /\ chat_history = None
    /\ run_authenticity = FALSE
    /\ pc = "idle"
    /\ errors = << >>
    /\ total_steps = 0
    /\ current_step = 0
    /\ cat = 1
    /\ crit = 1
    /\ criterion_assessments = << >>
    /\ total_score = 0
    /\ total_possible = 0
    /\ summary_result = None
    /\ authenticity_result = None
    /\ returned = None
    /\ propagated = "none"
    /\ progress = << >>
    /\ stageLog = << >>

\* no library object exercised on its own
LibraryIdle ==
    /\ store = None
    /\ passed = << >>
    /\ input = None
    /\ output = None

Init ==
    /\ rubric \in Rubrics
    /\ EngineIdle
    /\ LibraryIdle

\* assess is called: errors = [], the step count, the first progress report
Assess(chat, run_auth) ==
    /\ pc = "idle"
    /\ chat_history' = chat
    /\ run_authenticity' = run_auth
    /\ errors' = << >>
    /\ total_steps' = CriteriaCount(rubric.categories) + ExtraSteps
    /\ progress' = Append(progress,
           Reported("INDEXING", "", 0, CriteriaCount(rubric.categories) + ExtraSteps))
    /\ current_step' = 1
    /\ pc' = "INDEXING"
    /\ UNCHANGED library
    /\ UNCHANGED << rubric, retrieval_top_k, chunks_, retriever_, cat, crit,
                    criterion_assessments, total_score, total_possible, summary_result,
                    authenticity_result, returned, propagated, stageLog >>

\* (mutant) the except branch indexes the chunks of a successful embedding
RetrieverNotEmptied ==
    add_chunks(Retriever("default"),
               embed_chunks(chunk_chat_history(chat_history, 1), << >>).out.value)

\* what the except branch of the indexing step leaves in self._retriever
RetrieverOnFailure == Retriever("default")

\* (mutant) the indexing failure is not recorded
IndexingErrorsDropped(errs, out) == errs

\* errors after the indexing step: one more when it raised
IndexingErrors(errs, out) ==
    IF out.ok THEN errs ELSE Append(errs, EmbeddingError(out.exc))

\* Step 1: chunk, embed, index; on an exception, one error and an empty index
Indexing(replies) ==
    /\ pc = "INDEXING"
    /\ LET chunked == chunk_chat_history(chat_history, 1)
           call == embed_chunks(chunked, replies)
           embedded == call.out
       IN  /\ chunks_' = call.chunks
           /\ retriever_' = IF embedded.ok
                            THEN add_chunks(Retriever("embedding_model"), embedded.value)
                            ELSE RetrieverOnFailure
           /\ errors' = IndexingErrors(errors, embedded)
           /\ stageLog' = Append(stageLog,
                  StageRun("INDEXING", "", None, ExcOf(embedded), 0, FALSE, << >>))
    /\ criterion_assessments' = << >>
    /\ cat' = 1
    /\ crit' = 1
    /\ pc' = "LOOP"
    /\ UNCHANGED library
    /\ UNCHANGED << rubric, retrieval_top_k, chat_history, run_authenticity, total_steps,
                    current_step, total_score, total_possible, summary_result,
                    authenticity_result, returned, propagated, progress >>

\* the loops reach their next criterion: its progress report
EnterCriterion ==
    /\ pc = "LOOP"
    /\ HasNextCriterion
    /\ LET next == NextCriterion(rubric.categories, cat, crit)
           criterion == rubric.categories[next.cat].criteria[next.crit]
       IN  /\ cat' = next.cat
           /\ crit' = next.crit
           /\ progress' = Append(progress,
                  Reported("PER_CRITERION", criterion.name, current_step, total_steps))
    /\ current_step' = current_step + 1
    /\ pc' = "PER_CRITERION"
    /\ UNCHANGED library
    /\ UNCHANGED << rubric, retrieval_top_k, chunks_, retriever_, chat_history,
                    run_authenticity, errors, total_steps, criterion_assessments,
                    total_score, total_possible, summary_result, authenticity_result,
                    returned, propagated, stageLog >>

\* (mutant) the criterion's exception is not caught: it ends the run
CriterionOutcomeUncaught(criterion, out, errs, assessments) ==
    IF out.ok
    THEN [errors |-> errs, assessments |-> Append(assessments, out.value), pc |-> "LOOP"]
    ELSE [errors |-> errs, assessments |-> assessments, pc |-> "RAISED"]

\* the state of the loop after one criterion: its assessment appended, or one
\* error and its placeholder
CriterionOutcome(criterion, out, errs, assessments) ==
    IF out.ok
    THEN [errors |-> errs, assessments |-> Append(assessments, out.value), pc |-> "LOOP"]
    ELSE [errors |-> Append(errs, CriterionError(criterion.name, out.exc)),
          assessments |-> Append(assessments, Placeholder(criterion, out.exc)),
          pc |-> "LOOP"]

\* Step 2, one criterion: retrieve, generate, build
AssessCriterion(queryReply, gen) ==
    /\ pc = "PER_CRITERION"
    /\ LET criterion == rubric.categories[cat].criteria[crit]
           did == assess_criterion(criterion, retriever_, retrieval_top_k, queryReply, gen)
           after == CriterionOutcome(criterion, did.out, errors, criterion_assessments)
       IN  /\ errors' = after.errors
           /\ criterion_assessments' = after.assessments
           /\ pc' = after.pc
           /\ stageLog' = Append(stageLog, CriterionRun(criterion.name, gen, did))
    /\ crit' = crit + 1
    /\ UNCHANGED library
    /\ UNCHANGED << rubric, retrieval_top_k, chunks_, retriever_, chat_history,
                    run_authenticity, total_steps, current_step, cat, total_score,
                    total_possible, summary_result, authenticity_result, returned,
                    propagated, progress >>

\* the loops are over: the totals, and the summary's progress report
EnterSummary ==
    /\ pc = "LOOP"
    /\ ~HasNextCriterion
    /\ total_score' = TotalScore(criterion_assessments)
    /\ total_possible' = TotalPossible(criterion_assessments)
    /\ progress' = Append(progress, Reported("SUMMARIZING", "", current_step, total_steps))
    /\ current_step' = current_step + 1
    /\ pc' = "SUMMARIZING"
    /\ UNCHANGED library
    /\ UNCHANGED << rubric, retrieval_top_k, chunks_, retriever_, chat_history,
                    run_authenticity, errors, total_steps, cat, crit,
                    criterion_assessments, summary_result, authenticity_result, returned,
                    propagated, stageLog >>

\* (mutant) the summary's exception is caught and an empty summary stands in
SummaryOutcomeCaught(out) ==
    [pc |-> "AFTER_SUMMARY", summary |-> IF out.ok THEN out.value ELSE EmptyDict,
     propagated |-> "none"]

\* where the run goes after the summary call: on, or out with its exception
SummaryOutcome(out) ==
    IF out.ok
    THEN [pc |-> "AFTER_SUMMARY", summary |-> out.value, propagated |-> "none"]
    ELSE [pc |-> "RAISED", summary |-> None, propagated |-> out.exc]

\* Step 3: the summary; its exception is not caught
GenerateSummary(gen) ==
    /\ pc = "SUMMARIZING"
    /\ LET did == generate_summary(criterion_assessments, total_score, total_possible, gen)
           after == SummaryOutcome(did.out)
       IN  /\ summary_result' = after.summary
           /\ propagated' = after.propagated
           /\ pc' = after.pc
           /\ stageLog' = Append(stageLog,
                  StageRun("SUMMARIZING", "", gen, ExcOf(did.out), did.generate_calls,
                           FALSE, << >>))
    /\ UNCHANGED library
    /\ UNCHANGED << rubric, retrieval_top_k, chunks_, retriever_, chat_history,
                    run_authenticity, errors, total_steps, current_step, cat, crit,
                    criterion_assessments, total_score, total_possible,
                    authenticity_result, returned, progress >>

\* if run_authenticity: its progress report
EnterAuthenticity ==
    /\ pc = "AFTER_SUMMARY"
    /\ RunsAuthenticity(run_authenticity)
    /\ progress' = Append(progress, Reported("AUTHENTICITY", "", current_step, total_steps))
    /\ current_step' = current_step + 1
    /\ pc' = "AUTHENTICITY"
    /\ UNCHANGED library
    /\ UNCHANGED << rubric, retrieval_top_k, chunks_, retriever_, chat_history,
                    run_authenticity, errors, total_steps, cat, crit,
                    criterion_assessments, total_score, total_possible, summary_result,
                    authenticity_result, returned, propagated, stageLog >>

\* (mutant) the authenticity failure is swallowed without a record
AuthenticityOutcomeSilent(out, errs) ==
    [errors |-> errs, authenticity |-> IF out.ok THEN out.value ELSE None]

\* the state after the authenticity call: its result, or one error and None
AuthenticityOutcome(out, errs) ==
    IF out.ok
    THEN [errors |-> errs, authenticity |-> out.value]
    ELSE [errors |-> Append(errs, AuthenticityError(out.exc)), authenticity |-> None]

\* Step 4: the authenticity check; its exception is caught
CheckAuthenticity(gen) ==
    /\ pc = "AUTHENTICITY"
    /\ LET out == check_authenticity(gen)
           after == AuthenticityOutcome(out, errors)
       IN  /\ errors' = after.errors
           /\ authenticity_result' = after.authenticity
           /\ stageLog' = Append(stageLog,
                  StageRun("AUTHENTICITY", "", gen, ExcOf(out), 1, FALSE, << >>))
    /\ pc' = "FINISH"
    /\ UNCHANGED library
    /\ UNCHANGED << rubric, retrieval_top_k, chunks_, retriever_, chat_history,
                    run_authenticity, total_steps, current_step, cat, crit,
                    criterion_assessments, total_score, total_possible, summary_result,
                    returned, propagated, progress >>

\* run_authenticity is false: authenticity_result stays None
SkipAuthenticity ==
    /\ pc = "AFTER_SUMMARY"
    /\ ~RunsAuthenticity(run_authenticity)
    /\ pc' = "FINISH"
    /\ UNCHANGED library
    /\ UNCHANGED << rubric, retrieval_top_k, chunks_, retriever_, chat_history,
                    run_authenticity, errors, total_steps, current_step, cat, crit,
                    criterion_assessments, total_score, total_possible, summary_result,
                    authenticity_result, returned, propagated, progress, stageLog >>

\* return FullAssessment(...)
Return ==
    /\ pc = "FINISH"
    /\ LET full == FullAssessment(criterion_assessments, total_score, total_possible,
                                  summary_result, authenticity_result, errors)
       IN  \/ /\ full.ok
              /\ returned' = full.value
              /\ propagated' = propagated
              /\ pc' = "DONE"
           \/ /\ ~full.ok
              /\ returned' = returned
              /\ propagated' = full.exc
              /\ pc' = "RAISED"
    /\ UNCHANGED library
    /\ UNCHANGED << rubric, retrieval_top_k, chunks_, retriever_, chat_history,
                    run_authenticity, errors, total_steps, current_step, cat, crit,
                    criterion_assessments, total_score, total_possible, summary_result,
                    authenticity_result, progress, stageLog >>

Next ==
    \/ \E chat \in Chats, run_auth \in BOOLEAN : Assess(chat, run_auth)
    \/ \E reply \in ProviderReplies : Indexing(<<reply>>)
    \/ EnterCriterion
    \/ \E queryReply \in ProviderReplies, gen \in CriterionGenerations :
           AssessCriterion(queryReply, gen)
    \/ EnterSummary
    \/ \E gen \in SummaryGenerations : GenerateSummary(gen)
    \/ EnterAuthenticity
    \/ \E gen \in AuthenticityGenerations : CheckAuthenticity(gen)
    \/ SkipAuthenticity
    \/ Return

Spec == Init /\ [][Next]_vars

----------------------------------------------------------------------------
(* Properties *)

Last(s) == s[Len(s)]

\* the rubric's criteria, in declared order
Criteria == FlatCriteria(rubric.categories)

\* the runs of a stage, in order
RunsOf(stage) == SelectSeq(stageLog, LAMBDA r : r.stage = stage)
Iterations == RunsOf("PER_CRITERION")
Raised(stage) == \E i \in 1..Len(stageLog) : stageLog[i].stage = stage /\ stageLog[i].exc # "none"
RaisedCount(runs) == Cardinality({ i \in 1..Len(runs) : runs[i].exc # "none" })

\* the errors of one kind, in order
ErrorsOf(errs, what) == SelectSeq(errs, LAMBDA e : e.what = what)

IsPlaceholder(ca) == ca.criterion_id[1] = "err"
PlaceholderCount(assessments) ==
    Cardinality({ i \in 1..Len(assessments) : IsPlaceholder(assessments[i]) })

\* the error each raising iteration must have left, in order
RECURSIVE ExpectedCriterionErrors(_)
ExpectedCriterionErrors(runs) ==
    IF runs = << >> THEN << >>
    ELSE (IF Head(runs).exc # "none"
          THEN << CriterionError(Head(runs).criterion, Head(runs).exc) >> ELSE << >>)
         \o ExpectedCriterionErrors(Tail(runs))

\* C1: a criterion whose iteration raised (in retrieval, in generate, while
\* building) leaves exactly one error naming it and the zero-point placeholder
\* (inadequate, low confidence, no evidence), and the loop goes on: every
\* criterion is attempted whatever failed before it.
C1_CriterionFailureIsolated ==
    /\ Len(criterion_assessments) = Len(Iterations)
    /\ \A i \in 1..Len(Iterations) :
          Iterations[i].exc # "none" =>
              /\ criterion_assessments[i].criterion_name = Iterations[i].criterion
              /\ criterion_assessments[i].points_earned = 0
              /\ criterion_assessments[i].level = Str("inadequate")
              /\ criterion_assessments[i].confidence = Str("low")
              /\ criterion_assessments[i].evidence = << >>
    /\ ErrorsOf(errors, "Criterion failed") = ExpectedCriterionErrors(Iterations)
    /\ (stageLog # << >> /\ Last(stageLog).stage = "PER_CRITERION")
          => pc \in {"LOOP", "PER_CRITERION", "SUMMARIZING"}
    /\ pc \in {"SUMMARIZING", "AFTER_SUMMARY", "AUTHENTICITY", "FINISH", "DONE"}
          => /\ Len(Iterations) = Len(Criteria)
             /\ \A i \in 1..Len(Criteria) : Iterations[i].criterion = Criteria[i].name

\* a run that finished although its first criterion failed in retrieval and
\* its second while building the result
C1_Witness ==
    /\ pc = "DONE"
    /\ Len(Iterations) = 2
    /\ Iterations[1].exc = "RuntimeError" /\ Iterations[1].generate_calls = 0
    /\ Iterations[2].exc = "ValueError"

\* C2: when embedding fails in the indexing stage the run goes on with an
\* empty index, every later retrieval returns nothing, and the errors hold
\* exactly one entry for the failure, which names the embedding.
C2_IndexingFailureDegrades ==
    Raised("INDEXING") =>
        /\ retriever_ # None /\ retriever_.chunks = << >>
        /\ Len(ErrorsOf(errors, "Embedding failed")) = 1
        /\ errors[1].what = "Embedding failed"
        /\ Len(stageLog) = 1 => pc \in {"LOOP", "PER_CRITERION", "SUMMARIZING"}
        /\ pc # "RAISED" \/ RunsOf("SUMMARIZING") # << >>
        /\ propagated \notin {"RuntimeError"}
        /\ \A i \in 1..Len(Iterations) :
              /\ Iterations[i].searched
              /\ Iterations[i].retrieved = << >>
              /\ Iterations[i].exc # "RuntimeError"
        /\ pc = "DONE" => Len(ErrorsOf(returned.errors, "Embedding failed")) = 1

\* a finished run over a real conversation whose embedding failed, with
\* criteria behind it
C2_Witness ==
    /\ pc = "DONE"
    /\ Raised("INDEXING")
    /\ Len(chat_history.exchanges) > 0
    /\ Len(Iterations) = 2

\* C3: an exception of the summary stage is not caught: assess raises it, no
\* FullAssessment is returned, the authenticity stage is never entered.
C3_SummaryFailurePropagates ==
    Raised("SUMMARIZING") =>
        /\ pc = "RAISED"
        /\ propagated = Last(stageLog).exc
        /\ Last(stageLog).stage = "SUMMARIZING"
        /\ returned = None
        /\ \A i \in 1..Len(progress) : progress[i].step # "AUTHENTICITY"
        /\ RunsOf("AUTHENTICITY") = << >>

\* a run with authenticity enabled whose summary call failed
C3_Witness ==
    /\ Raised("SUMMARIZING")
    /\ Last(stageLog).exc = "RetryError"
    /\ run_authenticity
    /\ Len(Iterations) > 0

\* C4: an exception of the authenticity stage is caught: one error is
\* recorded, the run goes on to its result, and the FullAssessment it returns
\* has no authenticity while its assessments, totals and summary are those of
\* the stages before.
C4_AuthenticityFailureDegrades ==
    Raised("AUTHENTICITY") =>
        /\ authenticity_result = None
        /\ Len(ErrorsOf(errors, "Authenticity check failed")) = 1
        /\ Last(errors) = AuthenticityError(Last(stageLog).exc)
        /\ pc \in {"FINISH", "DONE", "RAISED"}
        /\ pc = "RAISED" => ~HasGet(summary_result) /\ propagated = "AttributeError"
        /\ pc = "DONE" =>
              /\ returned.authenticity = None
              /\ returned.errors = errors
              /\ returned.criterion_assessments = criterion_assessments
              /\ Len(returned.criterion_assessments) = Len(Criteria)
              /\ returned.total_score = TotalScore(criterion_assessments)
              /\ returned.total_possible = TotalPossible(criterion_assessments)
              /\ returned.overall_quality = Get(summary_result, "overall_quality", Str("unknown"))
              /\ returned.summary_paragraphs = Get(summary_result, "summary_paragraphs", List(<< >>))

\* a returned assessment of a run whose authenticity call failed
C4_Witness ==
    /\ pc = "DONE"
    /\ Raised("AUTHENTICITY")
    /\ returned.overall_quality = Str("proficient")
    /\ Len(returned.criterion_assessments) = 2

\* the stages a run enters, in order, with the criterion each iteration is for
ExpectedStages ==
    << [step |-> "INDEXING", name |-> ""] >>
    \o [ i \in 1..Len(Criteria) |-> [step |-> "PER_CRITERION", name |-> Criteria[i].name] ]
    \o << [step |-> "SUMMARIZING", name |-> ""] >>
    \o (IF run_authenticity THEN << [step |-> "AUTHENTICITY", name |-> ""] >> ELSE << >>)

IsPrefix(s, t) == Len(s) <= Len(t) /\ \A i \in 1..Len(s) : s[i] = t[i]

Entered == [ i \in 1..Len(progress) |-> [step |-> progress[i].step, name |-> progress[i].name] ]
Worked == [ i \in 1..Len(stageLog) |-> [step |-> stageLog[i].stage, name |-> stageLog[i].criterion] ]

\* C5: the stages are entered in the fixed order INDEXING, one PER_CRITERION
\* per criterion in rubric order, SUMMARIZING, AUTHENTICITY only when
\* enabled, then DONE: none twice, none after a later one, and SUMMARIZING only
\* once every criterion has its assessment or placeholder.
C5_StagesInOrder ==
    /\ IsPrefix(Entered, ExpectedStages)
    /\ IsPrefix(Worked, Entered)
    /\ Len(Entered) <= Len(Worked) + 1
    /\ (\E i \in 1..Len(Entered) : Entered[i].step = "SUMMARIZING")
          => Len(criterion_assessments) = Len(Criteria)
    /\ pc = "DONE" => Entered = ExpectedStages /\ Worked = ExpectedStages

\* a finished run without authenticity over two categories of one criterion
C5_Witness ==
    /\ pc = "DONE"
    /\ ~run_authenticity
    /\ Len(rubric.categories) = 2
    /\ \A c \in 1..2 : Len(rubric.categories[c].criteria) = 1

\* C6: the errors of a returned FullAssessment count every degraded stage:
\* one for a failed indexing, one per placeholder, one for a failed
\* authenticity; they are empty exactly when no stage raised.
C6_ErrorsCountDegradedStages ==
    pc = "DONE" =>
        /\ Len(returned.errors)
             = (IF Raised("INDEXING") THEN 1 ELSE 0)
               + PlaceholderCount(returned.criterion_assessments)
               + (IF Raised("AUTHENTICITY") THEN 1 ELSE 0)
        /\ PlaceholderCount(returned.criterion_assessments) = RaisedCount(Iterations)
        /\ returned.errors = << >> <=> \A i \in 1..Len(stageLog) : stageLog[i].exc = "none"

\* a returned assessment whose indexing, one criterion and authenticity failed
C6_Witness ==
    /\ pc = "DONE"
    /\ Raised("INDEXING") /\ Raised("AUTHENTICITY")
    /\ Len(Iterations) = 2 /\ RaisedCount(Iterations) = 1
    /\ Len(returned.errors) = 3

\* C7: a returned FullAssessment has exactly one CriterionAssessment per
\* rubric criterion, in declared order; entry i has the name and the points of
\* criterion i, scored or placeholder.
C7_OneAssessmentPerCriterion ==
    /\ Len(criterion_assessments) <= Len(Criteria)
    /\ \A i \in 1..Len(criterion_assessments) :
          /\ criterion_assessments[i].criterion_name = Criteria[i].name
          /\ criterion_assessments[i].points_possible = Criteria[i].points
    /\ pc = "DONE" =>
          /\ Len(returned.criterion_assessments) = Len(Criteria)
          /\ \A i \in 1..Len(Criteria) :
                /\ returned.criterion_assessments[i].criterion_name = Criteria[i].name
                /\ returned.criterion_assessments[i].points_possible = Criteria[i].points

\* a returned assessment over two categories, the first criterion a
\* placeholder and the second scored
C7_Witness ==
    /\ pc = "DONE"
    /\ Len(rubric.categories) = 2
    /\ \A c \in 1..2 : Len(rubric.categories[c].criteria) = 1
    /\ IsPlaceholder(returned.criterion_assessments[1])
    /\ ~IsPlaceholder(returned.criterion_assessments[2])

\* C8: in a returned FullAssessment every points_earned is within
\* [0, points_possible], whatever number the generator returned.
C8_PointsWithinRange ==
    pc = "DONE" =>
        \A i \in 1..Len(returned.criterion_assessments) :
            /\ 0 <= returned.criterion_assessments[i].points_earned
            /\ returned.criterion_assessments[i].points_earned
                 <= returned.criterion_assessments[i].points_possible

\* the points_earned number a completion carries, None when it carries none
CarriedPoints(gen) ==
    IF gen # None /\ gen.ok
    THEN LET j == gen.value.response.whole
         IN  IF j.t = "dict" /\ "points_earned" \in DOMAIN j.m /\ j.m.points_earned.t = "num"
             THEN j.m.points_earned ELSE Null
    ELSE Null

\* C9: a completion carrying points_earned = p with 0 <= p <= points_possible
\* gives an assessment with points_earned = p; one carrying p above
\* points_possible gives points_possible.
C9_PointsPreservedOrCapped ==
    \A i \in 1..Len(Iterations) :
        LET p == CarriedPoints(Iterations[i].gen)
            ca == criterion_assessments[i]
        IN  (Iterations[i].exc = "none" /\ p.t = "num") =>
               /\ (0 <= p.n /\ p.n <= ca.points_possible) => ca.points_earned = p.n
               /\ p.n > ca.points_possible => ca.points_earned = ca.points_possible

\* a 10-point criterion given 11 and a 7-point criterion given 7
C9_Witness ==
    /\ Len(Iterations) = 2
    /\ Len(criterion_assessments) = 2
    /\ CarriedPoints(Iterations[1].gen) = Num(11)
    /\ CarriedPoints(Iterations[2].gen) = Num(7)
    /\ criterion_assessments[1].points_earned = 10
    /\ criterion_assessments[2].points_earned = 7

\* the one-criterion 10-point rubric, an embedding that succeeded over a
\* conversation, and a generator that answered every call, 7 for the criterion
ScenarioSeven ==
    /\ Len(Criteria) = 1 /\ Criteria[1].points = 10
    /\ Len(chat_history.exchanges) = MaxExchanges
    /\ \A i \in 1..Len(stageLog) : stageLog[i].exc = "none"
    /\ \A i \in 1..Len(Iterations) : CarriedPoints(Iterations[i].gen) = Num(7)

\* C10: in a returned FullAssessment total_score is the sum of the earned
\* points and total_possible the sum of the points of all rubric criteria;
\* the one-criterion 10-point rubric scored 7 gives 7 of 10, 70.0 percent, one
\* assessment and no error.
C10_TotalsAndScenario ==
    pc = "DONE" =>
        /\ returned.total_score
             = SumSeq([ i \in 1..Len(returned.criterion_assessments) |->
                          returned.criterion_assessments[i].points_earned ])
        /\ returned.total_possible
             = SumSeq([ i \in 1..Len(Criteria) |-> Criteria[i].points ])
        /\ ScenarioSeven =>
              /\ returned.total_score = 7
              /\ returned.total_possible = 10
              /\ Percentage(returned) = 700
              /\ Len(returned.criterion_assessments) = 1
              /\ returned.errors = << >>

\* the scenario's returned assessment
C10_Witness ==
    /\ pc = "DONE"
    /\ ScenarioSeven
    /\ returned.total_score = 7
    /\ Percentage(returned) = 700

\* C11: a search of a non-empty index whose query embedding call fails returns
\* no result and raises nothing: the iteration goes on to the generator with
\* the text for no evidence, it is not turned into a failed criterion by the
\* retrieval.
C11_QueryFailureYieldsNoEvidence ==
    \A i \in 1..Len(Iterations) :
        Iterations[i].query_reply = "error" =>
            /\ Iterations[i].exc # "RuntimeError"
            /\ Iterations[i].generate_calls = 1
            /\ Iterations[i].retrieved_text = "No relevant chat history found."

----------------------------------------------------------------------------
(* The Retriever on its own: add_chunks, search and search_by_embedding in  *)
(* any order on one index                                                   *)

\* most chunks passed to the index over a run
MaxPassed == 2
\* largest top_k a search is given
MaxTopK == 2

\* a chunk of exchange number, as the chunker builds it, carrying embedding
Unit(number, embedding) ==
    [ChunkOf(Chat(number), number - 1, 0) EXCEPT !.embedding = embedding]

\* the chunks passed to add_chunks: with a vector, with none (None), with an
\* empty one ([])
Units ==
    { Unit(1, Embedding(<<1, 0>>)), Unit(2, Embedding(<<0, 1>>)),
      Unit(3, Embedding(<<1, 1>>)), Unit(2, NoEmbedding), Unit(3, Embedding(<< >>)) }

\* the query texts, the query vectors and the min_score values (n / d) of the
\* searches
Queries == { create_query_for_criterion("Writing Quality"),
             create_query_for_criterion("Originality"),
             create_query_for_criterion("Depth & Insight") }
QueryVectors == { << >>, <<1, 3>>, <<-1, 1>>, <<0, 0>> }
MinScores == { <<0, 1>>, <<3, 4>>, <<1, 1>> }

\* the searches: every top_k and min_score when the provider answers the query
\* embedding call, the engine's min_score when it does not
SearchCalls ==
    { [query |-> q, top_k |-> k, min_score |-> m, reply |-> "vectors"] :
        q \in Queries, k \in 0..MaxTopK, m \in MinScores }
    \cup { [query |-> q, top_k |-> MaxTopK, min_score |-> <<MinScoreNum, MinScoreDen>>,
            reply |-> r] : q \in Queries, r \in ProviderReplies \ {"vectors"} }

\* the engine is not run
EngineUnused ==
    /\ rubric = [categories |-> << >>]
    /\ EngineIdle

RetrieverInit ==
    /\ EngineUnused
    /\ store = Retriever("embedding_model")
    /\ passed = << >>
    /\ input = None
    /\ output = None

\* store.add_chunks(chunks)
AddChunks(chunks) ==
    /\ Len(passed) + Len(chunks) <= MaxPassed
    /\ store' = add_chunks(store, chunks)
    /\ passed' = passed \o chunks
    /\ input' = [op |-> "add_chunks", chunks |-> chunks]
    /\ output' = None
    /\ UNCHANGED engine

\* await store.search(query, top_k, min_score)
Search(query, top_k, min_score, reply) ==
    /\ input' = [op |-> "search", query |-> query, top_k |-> top_k,
                 min_score |-> min_score, reply |-> reply]
    /\ output' = search(store, query, top_k, min_score[1], min_score[2], reply)
    /\ UNCHANGED << engine, store, passed >>

\* store.search_by_embedding(query_embedding, top_k, min_score)
SearchByEmbedding(query_embedding, top_k, min_score) ==
    /\ input' = [op |-> "search_by_embedding", query_embedding |-> query_embedding,
                 top_k |-> top_k, min_score |-> min_score]
    /\ output' = [out |-> Ok(search_by_embedding(store, query_embedding, top_k,
                                                 min_score[1], min_score[2])),
                  embed_calls |-> 0]
    /\ UNCHANGED << engine, store, passed >>

RetrieverNext ==
    \/ \E chunks \in SeqsUpTo(Units, 2) : AddChunks(chunks)
    \/ \E c \in SearchCalls : Search(c.query, c.top_k, c.min_score, c.reply)
    \/ \E query_embedding \in QueryVectors, top_k \in 0..MaxTopK, min_score \in MinScores :
          SearchByEmbedding(query_embedding, top_k, min_score)

RetrieverSpec == RetrieverInit /\ [][RetrieverNext]_vars

\* the list a search returned, and the query vector it scored the index with
IsSearch == input # None /\ input.op \in {"search", "search_by_embedding"}
Returned == IsSearch /\ output.out.ok
Results == output.out.value
QueryVector ==
    IF input.op = "search_by_embedding" THEN input.query_embedding
    ELSE IF input.reply = "vectors" THEN ProviderVector(input.query)
    ELSE << >>
ScoreOf(chunk) == cosine_similarity(QueryVector, chunk.embedding.v)
Eligible(chunk) ==
    /\ chunk.embedding.some /\ chunk.embedding.v # << >>
    /\ ScoreAtLeast(ScoreOf(chunk), input.min_score[1], input.min_score[2])

\* C12: a list search or search_by_embedding returns has at most top_k
\* results, each an indexed unit scoring at least min_score, in non-increasing
\* score order, ranked 1, 2, ... in list order, and leaves out no unit scoring
\* at least min_score that scores higher than one it returns; on an empty
\* index search returns [] without raising and without an embedding call.
C12_SearchTopKOrdered ==
    /\ Returned =>
          /\ Len(Results) <= input.top_k
          /\ \A i \in 1..Len(Results) :
                /\ Results[i].rank = i
                /\ Results[i].score = ScoreOf(Results[i].chunk)
                /\ ScoreAtLeast(Results[i].score, input.min_score[1], input.min_score[2])
                /\ \E p \in 1..Len(store.chunks) : store.chunks[p] = Results[i].chunk
                /\ \A j \in (i + 1)..Len(Results) :
                      ~ScoreGreater(Results[j].score, Results[i].score)
          /\ \A p \in 1..Len(store.chunks) :
                (/\ QueryVector # << >>
                 /\ Eligible(store.chunks[p])
                 /\ \A i \in 1..Len(Results) : Results[i].chunk # store.chunks[p])
                => /\ Len(Results) = input.top_k
                   /\ \A i \in 1..Len(Results) :
                         ~ScoreGreater(ScoreOf(store.chunks[p]), Results[i].score)
    /\ (IsSearch /\ store.chunks = << >>) =>
          /\ output.out = Ok(<< >>)
          /\ output.embed_calls = 0

\* a search with top_k = 1 of an index of two units that both score at least
\* min_score: the second, which scores higher, is returned
C12_Witness ==
    /\ Returned
    /\ input.op = "search" /\ input.top_k = 1
    /\ Len(store.chunks) = 2
    /\ Eligible(store.chunks[1]) /\ Eligible(store.chunks[2])
    /\ ScoreGreater(ScoreOf(store.chunks[2]), ScoreOf(store.chunks[1]))
    /\ Len(Results) = 1
    /\ Results[1].chunk = store.chunks[2]

\* C13: the index holds exactly the chunks passed to add_chunks that carry a
\* vector, in the order passed, those of equal identifier all kept and those
\* indexed before unchanged; a chunk with no vector is never in the index and
\* never returned by a search.
C13_IndexHoldsVectorBearingUnits ==
    /\ store.chunks = SelectSeq(passed, LAMBDA c : c.embedding.some)
    /\ \A p \in 1..Len(store.chunks) : store.chunks[p].embedding # NoEmbedding
    /\ Returned => \A i \in 1..Len(Results) : Results[i].chunk.embedding # NoEmbedding

\* the same chunk passed in two add_chunks calls, both kept, and a search that
\* returned both
C13_Witness ==
    /\ Len(passed) = 2
    /\ passed[1].chunk_id = passed[2].chunk_id
    /\ Len(store.chunks) = 2
    /\ Returned
    /\ Len(Results) = 2

----------------------------------------------------------------------------
(* The chunker on its own *)

\* most exchanges of a conversation given to the chunker
MaxConversation == 6
\* largest context window given to the chunker
MaxWindow == 7

ChunkerInit ==
    /\ EngineUnused
    /\ store = None
    /\ passed = << >>
    /\ input \in { [op |-> "chunk_chat_history", chat |-> Chat(n), context_window |-> w] :
                     n \in 0..MaxConversation, w \in 0..MaxWindow }
    /\ output = None

\* chunk_chat_history(chat, context_window)
ChunkChatHistory ==
    /\ output = None
    /\ output' = Ok(chunk_chat_history(input.chat, input.context_window))
    /\ UNCHANGED << engine, store, passed, input >>

ChunkerNext == ChunkChatHistory

ChunkerSpec == ChunkerInit /\ [][ChunkerNext]_vars

\* C14: for a conversation of n exchanges and a window w, chunk_chat_history
\* returns n units; unit i (from 0) has the ordinal, prompt and response of
\* exchange i, the exchanges max(0, i - w) .. i - 1 as its context before and
\* the exchanges i + 1 .. min(n - 1, i + w) as its context after, in order.
C14_OneUnitPerExchangeWithContext ==
    output # None =>
        LET exchanges == input.chat.exchanges
            n == Len(exchanges)
            w == input.context_window
            units == output.value
        IN  /\ Len(units) = n
            /\ \A i \in 0..(n - 1) :
                  /\ units[i + 1].exchange_number = exchanges[i + 1].number
                  /\ units[i + 1].student_prompt = exchanges[i + 1].student_prompt
                  /\ units[i + 1].ai_response = exchanges[i + 1].ai_response
                  /\ Len(units[i + 1].context_before) = Min(w, i)
                  /\ \A k \in 1..Min(w, i) :
                        units[i + 1].context_before[k] = exchanges[Max(0, i - w) + k]
                  /\ Len(units[i + 1].context_after) = Min(w, n - 1 - i)
                  /\ \A k \in 1..Min(w, n - 1 - i) :
                        units[i + 1].context_after[k] = exchanges[i + 1 + k]
            /\ n = 1 => units[1].context_before = << >> /\ units[1].context_after = << >>

\* four exchanges chunked with a window of two: the third unit has two
\* exchanges before it and the one left after it
C14_Witness ==
    /\ output # None
    /\ Len(input.chat.exchanges) = 4
    /\ input.context_window = 2
    /\ Len(output.value) = 4
    /\ output.value[3].context_before = << Exchange(1), Exchange(2) >>
    /\ output.value[3].context_after = << Exchange(4) >>

----------------------------------------------------------------------------
(* The embedding adapter on its own *)

\* most texts given to embed_texts_batched
MaxTexts == 4
\* largest batch size of the EmbeddingService
MaxBatchSize == 3

\* the texts of the chunks of a conversation of n exchanges
TextsOf(n) ==
    LET chunks == chunk_chat_history(Chat(n), 1)
    IN  [ i \in 1..n |-> primary_text(chunks[i]) ]

\* EmbeddingService(batch_size).embed_texts_batched(texts) for every batch
\* size, and embed_chunks(chunks) (batches of BatchSize) for conversations of
\* no, one and two batches; replies: what the provider does with each batch
EmbeddingCalls ==
    { [op |-> "embed_texts_batched", texts |-> TextsOf(n), batch_size |-> b,
       replies |-> r] :
        n \in 0..MaxTexts, b \in 0..MaxBatchSize, r \in SeqsUpTo(ProviderReplies, MaxTexts) }
    \cup { [op |-> "embed_chunks", chunks |-> chunk_chat_history(Chat(n), 1),
            replies |-> r] :
            n \in {0, MaxTexts, BatchSize + 1}, r \in SeqsUpTo(ProviderReplies, 2) }

EmbeddingInit ==
    /\ EngineUnused
    /\ store = None
    /\ passed = << >>
    /\ input \in EmbeddingCalls
    /\ output = None

\* await EmbeddingService(batch_size = b).embed_texts_batched(texts)
EmbedTextsBatched ==
    /\ output = None
    /\ input.op = "embed_texts_batched"
    /\ output' = embed_texts_batched(input.texts, input.batch_size, input.replies)
    /\ UNCHANGED << engine, store, passed, input >>

\* await embed_chunks(chunks)
EmbedChunks ==
    /\ output = None
    /\ input.op = "embed_chunks"
    /\ output' = embed_chunks(input.chunks, input.replies)
    /\ UNCHANGED << engine, store, passed, input >>

EmbeddingNext == EmbedTextsBatched \/ EmbedChunks

EmbeddingSpec == EmbeddingInit /\ [][EmbeddingNext]_vars

\* the texts and the batch size of the call
CallTexts ==
    IF input.op = "embed_chunks"
    THEN [ i \in 1..Len(input.chunks) |-> primary_text(input.chunks[i]) ]
    ELSE input.texts
CallBatchSize == IF input.op = "embed_chunks" THEN BatchSize ELSE input.batch_size

\* the batches the texts make, and those the provider fails on
BatchCount ==
    IF CallBatchSize = 0 THEN 0 ELSE (Len(CallTexts) + CallBatchSize - 1) \div CallBatchSize
FailingBatches == { b \in 1..BatchCount : ReplyAt(input.replies, b) = "error" }
FirstFailingBatch == CHOOSE b \in FailingBatches : \A c \in FailingBatches : b <= c

\* C15: when embed_texts_batched returns for n texts it returns n vectors, the
\* i-th the provider's vector for the i-th text, whatever the batch size and
\* whatever the provider answered to each batch.
C15_OneVectorPerText ==
    (output # None /\ input.op = "embed_texts_batched" /\ output.out.ok) =>
        /\ Len(output.out.value) = Len(input.texts)
        /\ \A i \in 1..Len(input.texts) :
              output.out.value[i] = ProviderVector(input.texts[i])

\* C16: when the provider fails on a batch the whole call fails with the
\* error: no vector is returned, no chunk of the call has a vector attached
\* (those of the batches before are discarded), and no batch after the failing
\* one is requested.
C16_BatchFailureFailsWholeCall ==
    (output # None /\ FailingBatches # {}) =>
        /\ output.out = Raise("RuntimeError")
        /\ Len(output.requested) = FirstFailingBatch
        /\ input.op = "embed_chunks" =>
              /\ output.chunks = input.chunks
              /\ \A i \in 1..Len(output.chunks) : output.chunks[i].embedding = NoEmbedding

\* embed_chunks of eleven chunks whose second batch fails after the first
\* was answered
C16_Witness ==
    /\ output # None
    /\ input.op = "embed_chunks"
    /\ Len(input.chunks) = BatchSize + 1
    /\ input.replies = <<"vectors", "error">>
    /\ Len(output.requested) = 2
    /\ Len(output.requested[1]) = BatchSize
    /\ ~output.out.ok

----------------------------------------------------------------------------
(* The response normalizer on its own *)

\* most segments a completion text of the model is made of
MaxSegments == 5

\* the segments: prose, the fences, an object, a number, a lone brace
Segments ==
    { <<"w">>, <<"fence_json">>, <<"fence">>, <<"{", "k", "}">>, <<"7">>, <<"{">>, <<"}">> }

\* the texts of at most n segments
RECURSIVE TextsOfSegments(_)
TextsOfSegments(n) ==
    IF n = 0 THEN { << >> }
    ELSE LET shorter == TextsOfSegments(n - 1)
         IN  shorter \cup { t \o g : t \in shorter, g \in Segments }

NormalizerInit ==
    /\ EngineUnused
    /\ store = None
    /\ passed = << >>
    /\ input \in { [op |-> "parse_json_response", text |-> t] :
                     t \in TextsOfSegments(MaxSegments) }
    /\ output = None

\* self._parse_json_response(text)
ParseJsonResponse ==
    /\ output = None
    /\ output' = Ok(parse_json_response(Extraction(input.text)))
    /\ UNCHANGED << engine, store, passed, input >>

NormalizerNext == ParseJsonResponse

NormalizerSpec == NormalizerInit /\ [][NormalizerNext]_vars

\* C17: whatever the completion text, the normalizer returns a key/value
\* mapping, empty or not.
C17_NormalizerReturnsMapping ==
    output # None => output.value.t = "dict"

\* the positions of a piece in the text
Positions(tokens, subs) == { i \in 1..Len(tokens) : tokens[i] \in subs }
Least(S) == CHOOSE i \in S : \A j \in S : i <= j
Greatest(S) == CHOOSE i \in S : \A j \in S : i >= j

\* (a) the whole text; (b) the interior of the first json fenced block; (c) the
\* text from the first '{' to the last '}'
WholeParse == loads(input.text)
FencedParse ==
    LET opens == Positions(input.text, {"fence_json"})
    IN  IF opens = {} THEN Fail
        ELSE LET closes == { j \in Positions(input.text, {"fence", "fence_json"}) :
                               j > Least(opens) }
             IN  IF closes = {} THEN Fail
                 ELSE loads(SubSeq(input.text, Least(opens) + 1, Least(closes) - 1))
BracedParse ==
    LET opens == Positions(input.text, {"{"})
        closes == Positions(input.text, {"}"})
    IN  IF opens = {} \/ closes = {} THEN Fail
        ELSE loads(SubSeq(input.text, Least(opens), Greatest(closes)))

\* C18: the normalizer returns the parse of the first attempt that succeeds,
\* of (a) the whole text, (b) the interior of the first json fenced block, (c) the
\* text from the first '{' to the last '}', and the empty mapping only when
\* all three fail; prose, a fenced object, prose gives the fenced object.
C18_FirstSuccessfulAttempt ==
    output # None =>
        /\ output.value =
              IF WholeParse # Fail THEN WholeParse
              ELSE IF FencedParse # Fail THEN FencedParse
              ELSE IF BracedParse # Fail THEN BracedParse
              ELSE EmptyDict
        /\ input.text = <<"w", "fence_json", "{", "k", "}", "fence", "w">>
              => output.value = Dict([k |-> Num(1)])

\* prose, a fenced object, prose: the object is returned
C18_Witness ==
    /\ output # None
    /\ input.text = <<"w", "fence_json", "{", "k", "}", "fence", "w">>
    /\ output.value = Dict([k |-> Num(1)])

----------------------------------------------------------------------------
(* Properties of the run that rest on the normalizer and the index *)

\* the stage runs whose completion was prose that fails every attempt
IsProse(run) == run.gen = Ok(Response(Prose))

\* C19: a completion that fails every normalization attempt makes its stage
\* neither raise nor record an error; the stage uses its defaults: a criterion
\* 0 points, inadequate, low confidence, no evidence; the summary empty lists,
\* no observation, quality unknown, grade N/A; authenticity score 50, low
\* confidence, no flags.
C19_UnparseableCompletionGivesDefaults ==
    /\ \A i \in 1..Len(stageLog) : IsProse(stageLog[i]) => stageLog[i].exc = "none"
    /\ \A i \in 1..Len(Iterations) :
          IsProse(Iterations[i]) =>
              /\ criterion_assessments[i].points_earned = 0
              /\ criterion_assessments[i].level = Str("inadequate")
              /\ criterion_assessments[i].confidence = Str("low")
              /\ criterion_assessments[i].evidence = << >>
              /\ ~IsPlaceholder(criterion_assessments[i])
              /\ \A e \in 1..Len(errors) :
                    ~(errors[e].what = "Criterion failed"
                      /\ errors[e].name = Iterations[i].criterion)
    /\ \A i \in 1..Len(RunsOf("SUMMARIZING")) :
          IsProse(RunsOf("SUMMARIZING")[i]) =>
              /\ summary_result = EmptyDict
              /\ pc # "RAISED"
              /\ pc = "DONE" =>
                    /\ returned.summary_paragraphs = List(<< >>)
                    /\ returned.key_strengths = List(<< >>)
                    /\ returned.areas_for_growth = List(<< >>)
                    /\ returned.notable_observations = Str("")
                    /\ returned.overall_quality = Str("unknown")
                    /\ returned.recommended_grade = Str("N/A")
    /\ \A i \in 1..Len(RunsOf("AUTHENTICITY")) :
          IsProse(RunsOf("AUTHENTICITY")[i]) =>
              /\ authenticity_result # None
              /\ authenticity_result.score = Num(DefaultAuthenticityScore)
              /\ authenticity_result.confidence = Str("low")
              /\ authenticity_result.flags = List(<< >>)
              /\ ErrorsOf(errors, "Authenticity check failed") = << >>

\* a returned assessment of a run whose criterion, summary and authenticity
\* completions were all prose
C19_Witness ==
    /\ pc = "DONE"
    /\ Len(Iterations) = 1
    /\ \A i \in 1..Len(stageLog) : stageLog[i].stage # "INDEXING" => IsProse(stageLog[i])
    /\ returned.errors = << >>
    /\ returned.criterion_assessments[1].points_earned = 0
    /\ returned.overall_quality = Str("unknown")
    /\ RunsOf("AUTHENTICITY") # << >>
    /\ returned.authenticity # None
    /\ returned.authenticity.score = Num(DefaultAuthenticityScore)

\* C20: in a run whose embedding call failed at indexing the FullAssessment is
\* still returned and the evidence of every criterion is empty, whatever the
\* generator returned for it.
C20_NoEvidenceFromEmptyIndex ==
    Raised("INDEXING") =>
        /\ pc # "RAISED" \/ RunsOf("SUMMARIZING") # << >>
        /\ \A i \in 1..Len(criterion_assessments) : criterion_assessments[i].evidence = << >>
        /\ pc = "DONE" =>
              \A i \in 1..Len(returned.criterion_assessments) :
                  returned.criterion_assessments[i].evidence = << >>

----------------------------------------------------------------------------
(* Properties of the run: the calls of the generator *)

\* the generate calls the stage runs made
GenerateCalls == SumSeq([ i \in 1..Len(stageLog) |-> stageLog[i].generate_calls ])

\* C21: a run invokes generate exactly once in every criterion iteration it
\* reaches and exactly once in the summary stage, at most once in the
\* authenticity stage and never there when it is disabled; a completed run has
\* made one invocation per criterion, one for the summary and one more when
\* authenticity is enabled.
C21_GenerateOncePerStage ==
    /\ \A i \in 1..Len(stageLog) :
          /\ stageLog[i].stage \in {"PER_CRITERION", "SUMMARIZING"}
                => stageLog[i].generate_calls = 1
          /\ stageLog[i].stage = "AUTHENTICITY"
                => stageLog[i].generate_calls <= 1 /\ run_authenticity
    /\ pc = "DONE" =>
          GenerateCalls = Len(Criteria) + 1 + (IF run_authenticity THEN 1 ELSE 0)

----------------------------------------------------------------------------
(* OllamaClient.generate on its own: the attempts of one call under          *)
(* @retry(stop = stop_after_attempt(3), wait = wait_exponential(1, 1, 10))   *)

\* stop_after_attempt(3)
StopAfterAttempt == 3
\* wait_exponential(multiplier = 1, min = 1, max = 10)
WaitMultiplier == 1
WaitMin == 1
WaitMax == 10

\* What one POST /api/generate does: the service answers with a completion
\* (well formed or prose), the request times out, the connection fails, the
\* service answers with an HTTP error status, or with a body that is no JSON
AttemptOutcomes ==
    { "completion", "prose_completion", "timeout", "connect_error", "http_status",
      "invalid_body" }
Transient == { "timeout", "connect_error" }

\* the body of generate, once: response.json(), TimeoutError for
\* httpx.TimeoutException, RuntimeError for any other exception
generate_attempt(outcome) ==
    IF outcome = "completion" THEN Ok(Response(JsonText(EmptyDict)))
    ELSE IF outcome = "prose_completion" THEN Ok(Response(Prose))
    ELSE IF outcome = "timeout" THEN Raise("TimeoutError")
    ELSE Raise("RuntimeError")

\* retry = retry_if_exception_type(): the default of @retry, any exception
retry_if_exception(result) == ~result.ok

\* (mutant) one more attempt is allowed
stop_after_four(attempt_number) == attempt_number >= StopAfterAttempt + 1

\* stop = stop_after_attempt(3)
stop_after_attempt(attempt_number) == attempt_number >= StopAfterAttempt

RECURSIVE Pow2(_)
Pow2(n) == IF n = 0 THEN 1 ELSE 2 * Pow2(n - 1)

\* wait_exponential: multiplier * 2 ** (attempt_number - 1), within [min, max]
wait_exponential(attempt_number) ==
    Max(Max(0, WaitMin), Min(WaitMultiplier * Pow2(attempt_number - 1), WaitMax))

\* what the service does with the request of a number; it goes on as it last
\* did
OutcomeAt(service, attempt_number) ==
    IF attempt_number <= Len(service) THEN service[attempt_number]
    ELSE service[Len(service)]

GenerateInit ==
    /\ EngineUnused
    /\ store = None
    /\ passed = << >>
    /\ input \in { [op |-> "generate", service |-> s] :
                     s \in [1..StopAfterAttempt -> AttemptOutcomes] }
    /\ output = [attempts |-> << >>, waits |-> << >>, result |-> None, next |-> "attempt"]

\* one attempt: its response ends the call; its exception is retried unless
\* the attempts are used up, and then the call raises RetryError
GenerateAttempt ==
    /\ output.result = None
    /\ output.next = "attempt"
    /\ LET attempt_number == Len(output.attempts) + 1
           outcome == OutcomeAt(input.service, attempt_number)
           got == generate_attempt(outcome)
       IN  output' =
              [output EXCEPT
                 !.attempts = Append(@, outcome),
                 !.result = IF ~retry_if_exception(got) THEN got
                            ELSE IF stop_after_attempt(attempt_number)
                                 THEN Raise("RetryError")
                                 ELSE None,
                 !.next = IF retry_if_exception(got) /\ ~stop_after_attempt(attempt_number)
                          THEN "wait" ELSE "done"]
    /\ UNCHANGED << engine, store, passed, input >>

\* the pause before the next attempt
GenerateWait ==
    /\ output.result = None
    /\ output.next = "wait"
    /\ output' = [output EXCEPT !.waits = Append(@, wait_exponential(Len(output.attempts))),
                                !.next = "attempt"]
    /\ UNCHANGED << engine, store, passed, input >>

GenerateNext == GenerateAttempt \/ GenerateWait

GenerateSpec == GenerateInit /\ [][GenerateNext]_vars

Succeeds(outcome) == outcome \in {"completion", "prose_completion"}

\* C22: one generate call makes at most 3 attempts; the first attempt that
\* succeeds ends it with that response and nothing is attempted after it; when
\* every attempt failed the call ends by raising to its caller.
C22_BoundedAttempts ==
    /\ Len(output.attempts) <= StopAfterAttempt
    /\ Len(output.waits) <= Len(output.attempts)
    /\ \A k \in 1..(Len(output.attempts) - 1) : ~Succeeds(output.attempts[k])
    /\ \A k \in 1..Len(output.attempts) :
          output.attempts[k] = input.service[k]
    /\ output.result = None =>
          /\ Len(output.attempts) < StopAfterAttempt
          /\ \A k \in 1..Len(output.attempts) : ~Succeeds(output.attempts[k])
    /\ (output.result # None /\ output.result.ok) =>
          /\ Succeeds(Last(output.attempts))
          /\ output.result = generate_attempt(Last(output.attempts))
    /\ (output.result # None /\ ~output.result.ok) =>
          /\ Len(output.attempts) = StopAfterAttempt
          /\ \A k \in 1..Len(output.attempts) : ~Succeeds(output.attempts[k])
          /\ output.result = Raise("RetryError")
    /\ (output.attempts # << >> /\ Succeeds(Last(output.attempts))) => output.result # None

\* a call whose third attempt was answered after two that failed
C22_Witness ==
    /\ output.attempts = <<"timeout", "connect_error", "completion">>
    /\ output.result # None
    /\ output.result.ok
    /\ output.waits = <<1, 2>>

\* C23: generate makes another attempt only after an attempt that failed with
\* a transient failure (connection error, timeout): an attempt that failed
\* otherwise, or that received a response, is the last of the call.
C23_OnlyTransientRetried ==
    \A k \in 1..(Len(output.attempts) - 1) : output.attempts[k] \in Transient

----------------------------------------------------------------------------
\* C24: whenever the FullAssessment returned by assess carries an
\* AuthenticityResult, its score lies in [0, 100], whatever authenticity_score
\* the generator returned.
C24_AuthenticityScoreInRange ==
    (pc = "DONE" /\ returned # None /\ returned.authenticity # None) =>
        /\ returned.authenticity.score.t = "num"
        /\ returned.authenticity.score.n \in 0..100

----------------------------------------------------------------------------
\* C25: the progress notification of a stage is emitted only once that stage's
\* work has finished; every notification carries total_steps = criterion
\* count + 3, also when authenticity is skipped, and current_step increases by
\* exactly 1 from one notification to the next.
C25_ProgressAfterWork ==
    /\ \A i \in 1..Len(progress) :
          /\ i <= Len(stageLog)
          /\ stageLog[i].stage = progress[i].step
          /\ progress[i].total = Len(Criteria) + ExtraSteps
    /\ \A i \in 1..(Len(progress) - 1) :
          progress[i + 1].current = progress[i].current + 1

----------------------------------------------------------------------------
(* EmbeddingService.embed_texts_batched: the provider calls and the pauses *)

\* the least number of batches of a size that hold n texts
CeilDiv(n, b) == CHOOSE c \in 0..n : c * b >= n /\ (c = 0 \/ (c - 1) * b < n)

\* the provider calls among the events of the call, in order
ProviderCalls == SelectSeq(output.events, LAMBDA e : e.event = "embed_texts")
Pauses == SelectSeq(output.events, LAMBDA e : e.event = "sleep")

\* C26: embed_texts_batched on n texts with batch size b issues ceil(n/b)
\* provider calls, each over a contiguous slice of at most b texts, the slices
\* covering all texts once in input order; exactly one pause lies between two
\* consecutive provider calls, none before the first call or after the last.
C26_BatchesAndPauses ==
    (output # None /\ input.op = "embed_texts_batched" /\ input.batch_size > 0) =>
        LET n == Len(input.texts)
            b == input.batch_size
        IN  /\ \A k \in 1..Len(output.events) :
                  output.events[k].event = IF k % 2 = 1 THEN "embed_texts" ELSE "sleep"
            /\ output.events # << >> => Last(output.events).event = "embed_texts"
            /\ \A j \in 1..Len(ProviderCalls) :
                  /\ ProviderCalls[j].batch =
                        SubSeq(input.texts, (j - 1) * b + 1, Min(j * b, n))
                  /\ Len(ProviderCalls[j].batch) \in 1..b
            /\ output.out.ok =>
                  /\ Len(ProviderCalls) = CeilDiv(n, b)
                  /\ Len(Pauses) = IF n = 0 THEN 0 ELSE CeilDiv(n, b) - 1

\* three texts in batches of one: three calls, a pause after the first and
\* after the second
C26_Witness ==
    /\ output # None
    /\ input.op = "embed_texts_batched"
    /\ Len(input.texts) = 3
    /\ input.batch_size = 1
    /\ output.out.ok
    /\ Len(ProviderCalls) = 3
    /\ Len(Pauses) = 2

----------------------------------------------------------------------------
(* Retriever.search: units of equal score *)

SameScore(s1, s2) == ~ScoreGreater(s1, s2) /\ ~ScoreGreater(s2, s1)

\* the positions of the index a search scores at least min_score
EligiblePositions == { p \in 1..Len(store.chunks) : Eligible(store.chunks[p]) }

\* the rank of the unit at a position: after every unit that scores higher and
\* every unit of the same score added before it
StableRank(p) ==
    1 + Cardinality({ q \in EligiblePositions :
                        ScoreGreater(ScoreOf(store.chunks[q]), ScoreOf(store.chunks[p])) })
      + Cardinality({ q \in EligiblePositions :
                        q < p /\ SameScore(ScoreOf(store.chunks[q]), ScoreOf(store.chunks[p])) })

\* C27: units of equal score for a query are returned in insertion order, the
\* unit added earlier with the smaller rank, and when top_k cuts between tied
\* units the earlier-inserted ones are kept.
C27_TiesInInsertionOrder ==
    (Returned /\ QueryVector # << >>) =>
        /\ Len(Results) = Min(input.top_k, Cardinality(EligiblePositions))
        /\ \A p \in EligiblePositions :
              StableRank(p) <= input.top_k =>
                  /\ StableRank(p) <= Len(Results)
                  /\ Results[StableRank(p)].chunk = store.chunks[p]
                  /\ Results[StableRank(p)].rank = StableRank(p)

\* exchange 2 then exchange 1 were indexed, the query scores both the same and
\* top_k = 1: exchange 2, added first, is the one returned
C27_Witness ==
    /\ Returned
    /\ input.op = "search"
    /\ input.top_k = 1
    /\ Len(store.chunks) = 2
    /\ store.chunks[1].exchange_number = 2
    /\ store.chunks[2].exchange_number = 1
    /\ Eligible(store.chunks[1]) /\ Eligible(store.chunks[2])
    /\ SameScore(ScoreOf(store.chunks[1]), ScoreOf(store.chunks[2]))
    /\ Len(Results) = 1
    /\ Results[1].chunk = store.chunks[1]

----------------------------------------------------------------------------
(* Rubrics whose points add up to 0 *)

RubricPoints == SumSeq([ i \in 1..Len(Criteria) |-> Criteria[i].points ])

\* the provider and the generator answered every call the run made
ServicesSucceeded ==
    \A i \in 1..Len(stageLog) :
        /\ stageLog[i].gen = None \/ stageLog[i].gen.ok
        /\ stageLog[i].query_reply \in {"none", "vectors"}
        /\ stageLog[i].stage = "INDEXING" => stageLog[i].exc = "none"

\* C29: for a rubric whose total possible points is 0, a run whose embedding
\* service and generator succeed reaches DONE and returns a FullAssessment
\* whose serialized percentage is 0; no stage divides by zero.
C29_ZeroTotalRunCompletes ==
    (RubricPoints = 0 /\ ServicesSucceeded) =>
        /\ pc # "RAISED"
        /\ \A i \in 1..Len(stageLog) : stageLog[i].exc # "ZeroDivisionError"
        /\ pc = "DONE" => Percentage(returned) = 0

----------------------------------------------------------------------------
(* The submission routes: submit_writing, get_submission,                    *)
(* download_submission_file, delete_submission over the submissions folder.  *)
(* A string is the sequence of its characters; a path below SUBMISSIONS_DIR  *)
(* is a folder name and a file name.                                         *)

MaxSubmissions == 2
\* name[:50]
FilenameLimit == 50

\* \w and the hyphen, among the characters of the model
WordOrHyphen == { "a", "b", "t", "u", "_", "-", "D", "1" }

\* name.replace(" ", "_")
ReplaceSpaces(name) == [ i \in 1..Len(name) |-> IF name[i] = " " THEN "_" ELSE name[i] ]

\* sanitize_filename: spaces to underscores, other characters than \w and the
\* hyphen removed, at most 50 characters
sanitize_filename(name) ==
    Slice(SelectSeq(ReplaceSpaces(name), LAMBDA c : c \in WordOrHyphen), 0, FilenameLimit)

\* timestamp.strftime("%Y%m%d_%H%M%S") at the clock's second: the date, an
\* underscore, the time of day
strftime(second) == <<"D", "_">> \o [ i \in 1..second |-> "1" ]

\* submission_id.split("_", 1)
split_once(s) ==
    LET at == { i \in 1..Len(s) : s[i] = "_" }
    IN  IF at = {} THEN <<s>>
        ELSE LET p == CHOOSE i \in at : \A j \in at : i <= j
             IN  << SubSeq(s, 1, p - 1), SubSeq(s, p + 1, Len(s)) >>

MdSuffix == <<".md">>
SessionSuffix == <<"_", "session", ".json">>
JsonSuffix == <<".json">>

HTTPException(status) == [ok |-> FALSE, exc |-> "HTTPException", status |-> status]

\* the folder: the student folders made, and the files with what was written
EmptyFolder == [dirs |-> {}, files |-> {}]
File(dir, name, content) == [dir |-> dir, name |-> name, content |-> content]
\* SUBMISSIONS_DIR / "" is SUBMISSIONS_DIR
DirExists(fs, dir) == dir = << >> \/ dir \in fs.dirs
FileExists(fs, dir, name) == \E f \in fs.files : f.dir = dir /\ f.name = name
ReadFile(fs, dir, name) == (CHOOSE f \in fs.files : f.dir = dir /\ f.name = name).content
WriteFile(fs, dir, name, content) ==
    [fs EXCEPT !.files = { f \in @ : ~(f.dir = dir /\ f.name = name) }
                            \cup { File(dir, name, content) }]
Unlink(fs, dir, name) ==
    [fs EXCEPT !.files = { f \in @ : ~(f.dir = dir /\ f.name = name) }]

\* submit_writing: the folder after the call, the identifier returned, and
\* where the two files went; serial tells the calls apart
submit_writing(fs, name, title, second, serial) ==
    LET timestamp_str == strftime(second)
        student_name == sanitize_filename(name)
        doc_title == sanitize_filename(title)
        base_name == doc_title \o <<"_">> \o timestamp_str
        md_filename == base_name \o MdSuffix
        json_filename == base_name \o SessionSuffix
        submissionId == student_name \o <<"_">> \o base_name
        made == [fs EXCEPT !.dirs = @ \cup {student_name}]
        withMd == WriteFile(made, student_name, md_filename,
                            [kind |-> "md", serial |-> serial])
        withJson == WriteFile(withMd, student_name, json_filename,
                              [kind |-> "json", submissionId |-> submissionId,
                               serial |-> serial])
    IN  [ fs |-> withJson, submissionId |-> submissionId, dir |-> student_name,
          md |-> md_filename, json |-> json_filename ]

\* get_submission: the session document, or 404
get_submission(fs, submission_id) ==
    LET parts == split_once(submission_id)
    IN  IF Len(parts) < 2 THEN HTTPException(404)
        ELSE LET student_name == parts[1]
                 rest == parts[2]
             IN  IF ~DirExists(fs, student_name) THEN HTTPException(404)
                 ELSE IF FileExists(fs, student_name, rest \o SessionSuffix)
                      THEN Ok(ReadFile(fs, student_name, rest \o SessionSuffix))
                 ELSE IF FileExists(fs, student_name, rest \o JsonSuffix)
                      THEN Ok(ReadFile(fs, student_name, rest \o JsonSuffix))
                 ELSE HTTPException(404)

\* download_submission_file: the file served, 400 for another file type, or 404
download_submission_file(fs, submission_id, file_type) ==
    IF file_type \notin {"md", "json"} THEN HTTPException(400)
    ELSE LET parts == split_once(submission_id)
         IN  IF Len(parts) < 2 THEN HTTPException(404)
             ELSE LET student_name == parts[1]
                      name == parts[2] \o (IF file_type = "md" THEN MdSuffix
                                           ELSE SessionSuffix)
                  IN  IF ~FileExists(fs, student_name, name) THEN HTTPException(404)
                      ELSE Ok([dir |-> student_name, name |-> name,
                               content |-> ReadFile(fs, student_name, name)])

\* delete_submission: the folder after the call and the response
delete_submission(fs, submission_id) ==
    LET parts == split_once(submission_id)
    IN  IF Len(parts) < 2 THEN [fs |-> fs, out |-> HTTPException(404)]
        ELSE LET student_name == parts[1]
                 md == parts[2] \o MdSuffix
                 json == parts[2] \o SessionSuffix
                 hadMd == FileExists(fs, student_name, md)
                 hadJson == FileExists(fs, student_name, json)
             IN  IF ~hadMd /\ ~hadJson THEN [fs |-> fs, out |-> HTTPException(404)]
                 ELSE [ fs |-> Unlink(Unlink(fs, student_name, md), student_name, json),
                        out |-> Ok((IF hadMd THEN <<"md">> ELSE << >>)
                                   \o (IF hadJson THEN <<"json">> ELSE << >>)) ]

\* the student names and document titles submitted: plain, with a space, with
\* an underscore, with punctuation
StudentNames == { <<"a">>, <<"a", " ", "b">>, <<"a", "_", "b">> }
DocumentTitles == { <<"t">>, <<"b", " ", "t", "!">> }
FileTypes == { "md", "json", "pdf" }

SubmissionInit ==
    /\ EngineUnused
    /\ store = EmptyFolder
    /\ passed = << >>
    /\ input = None
    /\ output = None

\* POST /api/submissions/submit; the clock has moved on by a second or not
SubmitWriting(name, title, elapsed) ==
    /\ Len(passed) < MaxSubmissions
    /\ LET second == IF passed = << >> THEN 1 ELSE Last(passed).second + elapsed
           serial == Len(passed) + 1
           did == submit_writing(store, name, title, second, serial)
       IN  /\ store' = did.fs
           /\ passed' = Append(passed,
                  [submissionId |-> did.submissionId, dir |-> did.dir, md |-> did.md,
                   json |-> did.json, second |-> second, serial |-> serial,
                   name |-> name, deleted |-> FALSE])
           /\ output' = Ok(did.submissionId)
    /\ input' = [op |-> "submit_writing", name |-> name, title |-> title]
    /\ UNCHANGED engine

\* GET /api/submissions/{submission_id}, for an identifier submit_writing returned
GetSubmission(k) ==
    /\ k \in 1..Len(passed)
    /\ input' = [op |-> "get_submission", submission_id |-> passed[k].submissionId]
    /\ output' = get_submission(store, passed[k].submissionId)
    /\ UNCHANGED << engine, store, passed >>

\* GET /api/submissions/{submission_id}/download/{file_type}
DownloadSubmissionFile(k, file_type) ==
    /\ k \in 1..Len(passed)
    /\ input' = [op |-> "download_submission_file",
                 submission_id |-> passed[k].submissionId, file_type |-> file_type]
    /\ output' = download_submission_file(store, passed[k].submissionId, file_type)
    /\ UNCHANGED << engine, store, passed >>

\* DELETE /api/submissions/{submission_id}; every submission made so far now
\* has a delete after it
DeleteSubmission(k) ==
    /\ k \in 1..Len(passed)
    /\ LET did == delete_submission(store, passed[k].submissionId)
       IN  /\ store' = did.fs
           /\ output' = did.out
    /\ input' = [op |-> "delete_submission", submission_id |-> passed[k].submissionId,
                 undeleted |-> { i \in 1..Len(passed) : ~passed[i].deleted }]
    /\ passed' = [ i \in 1..Len(passed) |-> [passed[i] EXCEPT !.deleted = TRUE] ]
    /\ UNCHANGED engine

SubmissionNext ==
    \/ \E name \in StudentNames, title \in DocumentTitles, elapsed \in {0, 1} :
          SubmitWriting(name, title, elapsed)
    \/ \E k \in 1..MaxSubmissions : GetSubmission(k)
    \/ \E k \in 1..MaxSubmissions, file_type \in FileTypes : DownloadSubmissionFile(k, file_type)
    \/ \E k \in 1..MaxSubmissions : DeleteSubmission(k)

SubmissionSpec == SubmissionInit /\ [][SubmissionNext]_vars

\* the submissions the request's identifier was returned for, those left out
\* whose files a later submission of the same student, title and second wrote
\* again
Submitted ==
    { k \in 1..Len(passed) :
        /\ passed[k].submissionId = input.submission_id
        /\ \A l \in (k + 1)..Len(passed) :
              ~(passed[l].dir = passed[k].dir /\ passed[l].json = passed[k].json) }

\* C30: the submissionId returned by submit_writing, passed to get_submission,
\* download_submission_file or delete_submission with no delete in between,
\* resolves to the files submit_writing wrote for that submission, whatever
\* the student name and the title, names with spaces or underscores included.
C30_SubmissionIdRoundTrip ==
    /\ (input # None /\ input.op = "get_submission") =>
          \A k \in Submitted :
              ~passed[k].deleted =>
                  /\ output.ok
                  /\ output.value = [kind |-> "json",
                                     submissionId |-> passed[k].submissionId,
                                     serial |-> passed[k].serial]
    /\ (input # None /\ input.op = "download_submission_file"
           /\ input.file_type \in {"md", "json"}) =>
          \A k \in Submitted :
              ~passed[k].deleted =>
                  /\ output.ok
                  /\ output.value.dir = passed[k].dir
                  /\ output.value.name = IF input.file_type = "md" THEN passed[k].md
                                         ELSE passed[k].json
                  /\ output.value.content.serial = passed[k].serial
    /\ (input # None /\ input.op = "delete_submission") =>
          \A k \in Submitted :
              k \in input.undeleted =>
                  /\ output.ok
                  /\ ~FileExists(store, passed[k].dir, passed[k].md)
                  /\ ~FileExists(store, passed[k].dir, passed[k].json)

----------------------------------------------------------------------------
(* Several assess calls on one AssessmentEngine, interleaved where a call    *)
(* awaits: embed_chunks in the indexing step, client.generate in a           *)
(* criterion. self._chunks and self._retriever are the engine's fields       *)
(* (chunks_, retriever_); store tells which call constructed the Retriever   *)
(* object self._retriever refers to; passed holds the locals of each call.   *)

\* the calls: a first assess call and a second one on the same engine
Runs == { "first", "second" }

\* the locals of a call that has not started
RunIdle ==
    [at |-> "idle", chat_history |-> None, embedding |-> << >>, index |-> None,
     criterion |-> 1, searched |-> << >>]

\* the conversations the calls are given
RunChats == { Chat(1), Chat(MaxExchanges) }

SharedEngineInit ==
    /\ rubric \in { r \in Rubrics : Len(r.categories) = 1 /\ FlatCriteria(r.categories) # << >> }
    /\ EngineIdle
    /\ store = "none"
    /\ passed = [ r \in Runs |-> RunIdle ]
    /\ input = None
    /\ output = None

RunUnchanged ==
    UNCHANGED << rubric, retrieval_top_k, chat_history, run_authenticity, pc, errors,
                 total_steps, current_step, cat, crit, criterion_assessments, total_score,
                 total_possible, summary_result, authenticity_result, returned,
                 propagated, progress, stageLog, input, output >>

\* assess up to its first await: self._chunks = chunk_chat_history(...), and
\* embed_chunks(self._chunks, ...) is awaited
RunAssess(r, chat) ==
    /\ passed[r].at = "idle"
    /\ chunks_' = chunk_chat_history(chat, 1)
    /\ passed' = [passed EXCEPT ![r] = [@ EXCEPT !.at = "INDEXING", !.chat_history = chat,
                                                 !.embedding = chunk_chat_history(chat, 1)]]
    /\ UNCHANGED << retriever_, store >>
    /\ RunUnchanged

\* embed_chunks resumes the call: self._chunks, a new Retriever in
\* self._retriever with the chunks added; or the except branch
RunIndexing(r, reply) ==
    /\ passed[r].at = "INDEXING"
    /\ LET call == embed_chunks(passed[r].embedding, <<reply>>)
           built == IF call.out.ok
                    THEN add_chunks(Retriever("embedding_model"), call.out.value)
                    ELSE RetrieverOnFailure
       IN  /\ chunks_' = IF call.out.ok THEN call.out.value ELSE chunks_
           /\ retriever_' = built
           /\ passed' = [passed EXCEPT ![r] = [@ EXCEPT !.at = "LOOP", !.index = built]]
    /\ store' = r
    /\ RunUnchanged

\* _assess_criterion up to client.generate: the search of self._retriever as
\* it is now
RunRetrieve(r) ==
    /\ passed[r].at = "LOOP"
    /\ passed[r].criterion <= Len(FlatCriteria(rubric.categories))
    /\ LET criterion == FlatCriteria(rubric.categories)[passed[r].criterion]
           found == search(retriever_, create_query_for_criterion(criterion.name),
                           retrieval_top_k, MinScoreNum, MinScoreDen, "vectors")
       IN  passed' = [passed EXCEPT ![r] =
              [@ EXCEPT !.at = "GENERATING",
                        !.searched = Append(@,
                            [criterion |-> criterion.name, constructed_by |-> store,
                             retriever |-> retriever_,
                             retrieved |-> [ i \in 1..Len(found.out.value) |->
                                               found.out.value[i].chunk.exchange_number ]])]]
    /\ UNCHANGED << chunks_, retriever_, store >>
    /\ RunUnchanged

\* client.generate resumes the call; the loop goes on, or is over
RunGenerated(r) ==
    /\ passed[r].at = "GENERATING"
    /\ passed' = [passed EXCEPT ![r] =
          [@ EXCEPT !.criterion = @ + 1,
                    !.at = IF passed[r].criterion < Len(FlatCriteria(rubric.categories))
                           THEN "LOOP" ELSE "SUMMARIZING"]]
    /\ UNCHANGED << chunks_, retriever_, store >>
    /\ RunUnchanged

SharedEngineNext ==
    \E r \in Runs :
        \/ \E chat \in RunChats : RunAssess(r, chat)
        \/ \E reply \in {"vectors", "error"} : RunIndexing(r, reply)
        \/ RunRetrieve(r)
        \/ RunGenerated(r)

SharedEngineSpec == SharedEngineInit /\ [][SharedEngineNext]_vars

====
